---------------------------- MODULE Spec2Model ----------------------------
(***************************************************************************)
(* Fact-store builder (build_kb_from_acousticbrainz_dump.py) and query     *)
(* engine (knowledge_base_wrapper.py).                                     *)
(*                                                                         *)
(* Python values are tagged records; a Python str is a sequence of         *)
(* one-character strings, so that strip(), lower() and the `in` substring  *)
(* test are computed character by character.  A Python dict is a sequence  *)
(* of <<key, value>> pairs with distinct keys, in insertion order.         *)
(* Numbers are fixed-point: Num(n) stands for the number n / 10.           *)
(***************************************************************************)
EXTENDS Integers, Sequences, FiniteSets, TLC

VARIABLES
    input,        \* build_knowledge_base: the records of `songs` folded so far
    pc,           \* position of the build / load pipeline
    kb_songs,     \* build_knowledge_base: kb_songs
    facts,        \* build_knowledge_base: facts
    indexes,      \* build_knowledge_base: indexes
    document,     \* the persisted JSON document (JNull before it is written)
    self_songs,   \* KnowledgeBase.songs
    self_facts,   \* KnowledgeBase.facts
    self_indexes, \* KnowledgeBase.indexes
    call,         \* the last query: its name and arguments
    result        \* what the last query returned or raised

vars == <<input, pc, kb_songs, facts, indexes, document,
          self_songs, self_facts, self_indexes, call, result>>

---------------------------------------------------------------------------
(* Bounds of the model *)

MaxRecords == 2
MaxSongs == 2
\* tempo_bucket is applied to every tempo from -MaxTempo to MaxTempo, in
\* tenths of a beat per minute
MaxTempo == 1310

---------------------------------------------------------------------------
(* Python values *)

Absent == [tag |-> "absent"]
None == [tag |-> "none"]
Str(s) == [tag |-> "str", s |-> s]
Num(n) == [tag |-> "num", n |-> n]
List(xs) == [tag |-> "list", xs |-> xs]
Dict(d) == [tag |-> "dict", d |-> d]

IsNone(v) == v.tag = "none"
IsStr(v) == v.tag = "str"

\* dict.get(key, default) on a field that may be missing
Get(v, default) == IF v.tag = "absent" THEN default ELSE v

\* bool(v)
Truthy(v) ==
    CASE v.tag = "none" -> FALSE
      [] v.tag = "absent" -> FALSE
      [] v.tag = "str" -> v.s # <<>>
      [] v.tag = "num" -> v.n # 0
      [] v.tag = "list" -> v.xs # <<>>
      [] OTHER -> TRUE

---------------------------------------------------------------------------
(* str methods *)

LowerChar(c) ==
    CASE c = "A" -> "a"
      [] c = "B" -> "b"
      [] c = "M" -> "m"
      [] OTHER -> c

\* str.lower()
Lower(s) == [i \in 1..Len(s) |-> LowerChar(s[i])]

IsSpace(c) == c = " "

RECURSIVE LStrip(_)
LStrip(s) == IF s # <<>> /\ IsSpace(Head(s)) THEN LStrip(Tail(s)) ELSE s

RECURSIVE RStrip(_)
RStrip(s) ==
    IF s # <<>> /\ IsSpace(s[Len(s)]) THEN RStrip(SubSeq(s, 1, Len(s) - 1)) ELSE s

\* str.strip()
Strip(s) == RStrip(LStrip(s))

\* x in y, for two str
In(x, y) ==
    \E i \in 0..(Len(y) - Len(x)) : SubSeq(y, i + 1, i + Len(x)) = x

---------------------------------------------------------------------------
(* dict and list operations *)

HasKey(d, k) == \E i \in 1..Len(d) : d[i][1] = k

DictKeys(d) == [i \in 1..Len(d) |-> d[i][1]]

DictGet(d, k, default) ==
    IF HasKey(d, k) THEN d[CHOOSE i \in 1..Len(d) : d[i][1] = k][2] ELSE default

\* d[k] = v: an existing key keeps its position
DictSet(d, k, v) ==
    IF HasKey(d, k)
    THEN [i \in 1..Len(d) |-> IF d[i][1] = k THEN <<k, v>> ELSE d[i]]
    ELSE Append(d, <<k, v>>)

\* An append that leaves out an element the list already holds
SetDefaultAppendOnce(d, k, x) ==
    IF \E i \in 1..Len(DictGet(d, k, <<>>)) : DictGet(d, k, <<>>)[i] = x
    THEN d
    ELSE DictSet(d, k, Append(DictGet(d, k, <<>>), x))

\* d.setdefault(k, []).append(x)
SetDefaultAppend(d, k, x) == DictSet(d, k, Append(DictGet(d, k, <<>>), x))

Elems(xs) == {xs[i] : i \in 1..Len(xs)}

Count(xs, x) == Cardinality({i \in 1..Len(xs) : xs[i] = x})

NoRepeat(xs) == \A i, j \in 1..Len(xs) : xs[i] = xs[j] => i = j

\* list(dict.fromkeys(xs)): the first occurrence of each element, in order
RECURSIVE DedupFrom(_, _)
DedupFrom(seen, xs) ==
    IF xs = <<>> THEN seen
    ELSE IF Head(xs) \in Elems(seen) THEN DedupFrom(seen, Tail(xs))
    ELSE DedupFrom(Append(seen, Head(xs)), Tail(xs))

FromKeys(xs) == DedupFrom(<<>>, xs)

---------------------------------------------------------------------------
(* tempo_bucket *)

Digits == <<"0", "1", "2", "3", "4", "5", "6", "7", "8", "9">>

RECURSIVE NatToStr(_)
NatToStr(n) ==
    IF n < 10 THEN <<Digits[n + 1]>>
    ELSE Append(NatToStr(n \div 10), Digits[(n % 10) + 1])

\* str(n) of an int, as an f-string formats it
IntToStr(n) == IF n < 0 THEN <<"-">> \o NatToStr(-n) ELSE NatToStr(n)

\* int(x) of a number: truncation toward zero (x is n / 10)
IntOf(n) == IF n >= 0 THEN n \div 10 ELSE -((-n) \div 10)

BucketWidth == 10

\* A bucket around the nearest multiple of ten
tempo_bucket_nearest(tempo) ==
    IF IsNone(tempo) THEN None
    ELSE LET t == IntOf(tempo.n)
             base == ((t + 5) \div BucketWidth) * BucketWidth
         IN  Str(IntToStr(base) \o <<"-">> \o IntToStr(base + BucketWidth))

\* tempo_bucket(tempo): None, or the label f"{base}-{base + 10}"
tempo_bucket(tempo) ==
    IF IsNone(tempo) THEN None
    ELSE LET t == IntOf(tempo.n)
             base == (t \div BucketWidth) * BucketWidth
         IN  Str(IntToStr(base) \o <<"-">> \o IntToStr(base + BucketWidth))

---------------------------------------------------------------------------
(* build_knowledge_base *)

FactTypes ==
    {"has_tempo", "has_key", "has_mode", "has_loudness", "has_duration",
     "has_genre", "has_danceable", "has_voice_instrumental", "has_timbre",
     "has_mood"}

IndexNames ==
    {"by_tempo_range", "by_genre", "by_danceable", "by_voice_instrumental",
     "by_timbre", "by_mood"}

\* the order of the keys in the facts / indexes dict literals
FactOrder ==
    <<"has_tempo", "has_key", "has_mode", "has_loudness", "has_duration",
      "has_genre", "has_danceable", "has_voice_instrumental", "has_timbre",
      "has_mood">>

IndexOrder ==
    <<"by_tempo_range", "by_genre", "by_danceable", "by_voice_instrumental",
      "by_timbre", "by_mood">>

EmptyFacts == [ft \in FactTypes |-> <<>>]
EmptyIndexes == [ix \in IndexNames |-> <<>>]

\* The builder's three dicts and the exception that left the loop, if any
BuildState(s, f, x, e) == [songs |-> s, facts |-> f, indexes |-> x, err |-> e]

\* lines 262-275: the audio_features of one song
FoldAudioFeatures(st, sid, af) ==
    LET tempo == Get(af.tempo, None)
        key == Get(af.key, None)
        mode == Get(af.mode, None)
        loudness == Get(af.loudness, None)
        duration == Get(af.duration, None)
        bucket == tempo_bucket(tempo)
        f1 == IF ~IsNone(tempo)
              THEN [st.facts EXCEPT !["has_tempo"] = DictSet(@, sid, tempo)]
              ELSE st.facts
        x1 == IF ~IsNone(tempo) /\ Truthy(bucket)
              THEN [st.indexes EXCEPT
                       !["by_tempo_range"] = SetDefaultAppend(@, bucket, sid)]
              ELSE st.indexes
        f2 == IF Truthy(key)
              THEN [f1 EXCEPT !["has_key"] = DictSet(@, sid, key)] ELSE f1
        f3 == IF Truthy(mode)
              THEN [f2 EXCEPT !["has_mode"] = DictSet(@, sid, mode)] ELSE f2
        f4 == IF ~IsNone(loudness)
              THEN [f3 EXCEPT !["has_loudness"] = DictSet(@, sid, loudness)]
              ELSE f3
        f5 == IF ~IsNone(duration)
              THEN [f4 EXCEPT !["has_duration"] = DictSet(@, sid, duration)]
              ELSE f4
    IN  BuildState(st.songs, f5, x1, st.err)

\* facts[fact].setdefault(sid, []).append(g)
FactAppend(d, sid, g) ==
    DictSet(d, sid, List(Append(DictGet(d, sid, List(<<>>)).xs, g)))

\* A pass that indexes a label also when nothing is left of it after trimming
RECURSIVE FoldLabelsKeepBlank(_, _, _, _, _)
FoldLabelsKeepBlank(st, sid, fact, index, labels) ==
    IF labels = <<>> THEN st
    ELSE LET g == Head(labels)
             gn == Strip(Lower(g.s))
             f1 == [st.facts EXCEPT
                       ![fact] = DictSet(@, sid,
                                         List(Append(DictGet(@, sid, List(<<>>)).xs, g)))]
             x1 == [st.indexes EXCEPT
                       ![index] = DictSet(@, Str(gn),
                                          Append(DictGet(@, Str(gn), <<>>), sid))]
         IN  FoldLabelsKeepBlank([st EXCEPT !.facts = f1, !.indexes = x1],
                                 sid, fact, index, Tail(labels))

\* lines 276-280 and 294-298: one pass of `for g in song.get(..., [])`
RECURSIVE FoldLabels(_, _, _, _, _)
FoldLabels(st, sid, fact, index, labels) ==
    IF labels = <<>> THEN st
    ELSE LET g == Head(labels)
             gn == Strip(Lower(g.s))
             f1 == [st.facts EXCEPT ![fact] = FactAppend(@, sid, g)]
             x1 == IF gn # <<>>
                   THEN [st.indexes EXCEPT
                            ![index] = SetDefaultAppend(@, Str(gn), sid)]
                   ELSE st.indexes
         IN  FoldLabels(BuildState(st.songs, f1, x1, st.err), sid, fact, index,
                        Tail(labels))

\* lines 282-293: one of danceable / voice_instrumental / timbre
FoldScalarLabel(st, sid, fact, index, label) ==
    IF Truthy(label)
    THEN BuildState(st.songs,
                    [st.facts EXCEPT ![fact] = DictSet(@, sid, label)],
                    [st.indexes EXCEPT ![index] = SetDefaultAppend(@, label, sid)],
                    st.err)
    ELSE st

\* A registration that is skipped for a record carrying no track title
RegisterSongIfTitled(st, sid, song) ==
    IF song.track.tag = "absent" THEN st
    ELSE BuildState(DictSet(st.songs, sid,
                            [mbid |-> sid,
                             artist |-> Get(song.artist, Str(<<>>)),
                             track |-> Get(song.track, Str(<<>>)),
                             album |-> Get(song.album, Str(<<>>))]),
                    st.facts, st.indexes, st.err)

\* A registration that keeps the entry an identifier already has
RegisterSongOnce(st, sid, song) ==
    IF HasKey(st.songs, sid) THEN st
    ELSE BuildState(Append(st.songs,
                           <<sid, [mbid |-> sid,
                                   artist |-> Get(song.artist, Str(<<>>)),
                                   track |-> Get(song.track, Str(<<>>)),
                                   album |-> Get(song.album, Str(<<>>))]>>),
                    st.facts, st.indexes, st.err)

\* kb_songs[sid] = {...}, lines 256-261
RegisterSong(st, sid, song) ==
    BuildState(DictSet(st.songs, sid,
                       [mbid |-> sid,
                        artist |-> Get(song.artist, Str(<<>>)),
                        track |-> Get(song.track, Str(<<>>)),
                        album |-> Get(song.album, Str(<<>>))]),
               st.facts, st.indexes, st.err)

Raised(st, e) == BuildState(st.songs, st.facts, st.indexes, e)

\* A skip of the records whose identifier is null only
HasIdentifierUnlessNull(mbid) == ~IsNone(mbid)

\* `if not mbid: continue`, lines 253-254
HasIdentifier(mbid) == Truthy(mbid)

\* The body of `for song in songs`, lines 252-298.  A None where the code
\* calls .get() or iterates raises, and what was written before stays.
FoldSong(st, song) ==
    LET mbid == Get(song.mbid, None) IN
    IF ~HasIdentifier(mbid) THEN st
    ELSE
    LET sid == mbid
        s1 == RegisterSong(st, sid, song)
        af == Get(song.audio_features,
                  Dict([tempo |-> Absent, key |-> Absent, mode |-> Absent,
                        loudness |-> Absent, duration |-> Absent]))
        genres == Get(song.genres, List(<<>>))
        moods == Get(song.moods, List(<<>>))
    IN
    IF IsNone(af) THEN Raised(s1, "AttributeError")
    ELSE
    LET s2 == FoldAudioFeatures(s1, sid, af.d) IN
    IF IsNone(genres) THEN Raised(s2, "TypeError")
    ELSE
    LET s3 == FoldLabels(s2, sid, "has_genre", "by_genre", genres.xs)
        s4 == FoldScalarLabel(s3, sid, "has_danceable", "by_danceable",
                              Get(song.danceable, None))
        s5 == FoldScalarLabel(s4, sid, "has_voice_instrumental",
                              "by_voice_instrumental",
                              Get(song.voice_instrumental, None))
        s6 == FoldScalarLabel(s5, sid, "has_timbre", "by_timbre",
                              Get(song.timbre, None))
    IN
    IF IsNone(moods) THEN Raised(s6, "TypeError")
    ELSE FoldLabels(s6, sid, "has_mood", "by_mood", moods.xs)

\* A final pass that forgets the has_mood lists
DedupGenreOnly(f) ==
    [f EXCEPT
        !["has_genre"] =
            [i \in 1..Len(@) |-> <<@[i][1], List(FromKeys(@[i][2].xs))>>]]

\* lines 299-302: list(dict.fromkeys(...)) over every has_genre / has_mood list
DedupFacts(f) ==
    [f EXCEPT
        !["has_genre"] =
            [i \in 1..Len(@) |-> <<@[i][1], List(FromKeys(@[i][2].xs))>>],
        !["has_mood"] =
            [i \in 1..Len(@) |-> <<@[i][1], List(FromKeys(@[i][2].xs))>>]]

---------------------------------------------------------------------------
(* The persisted document: json.dump in run(), json.load in __init__ *)

JNull == [j |-> "null"]
JStr(s) == [j |-> "string", s |-> s]
JNum(n) == [j |-> "number", n |-> n]
JArr(xs) == [j |-> "array", xs |-> xs]
JObj(ms) == [j |-> "object", ms |-> ms]

\* A dump that writes every falsy value as null
ToJsonScalarTruthy(v) ==
    CASE v.tag = "str" /\ v.s # <<>> -> JStr(v.s)
      [] v.tag = "num" /\ v.n # 0 -> JNum(v.n)
      [] OTHER -> JNull

\* json.dump of a str, a number or None
ToJsonScalar(v) ==
    CASE v.tag = "str" -> JStr(v.s)
      [] v.tag = "num" -> JNum(v.n)
      [] OTHER -> JNull

\* json.dump of a fact value: a scalar or a list of scalars
ToJson(v) ==
    IF v.tag = "list"
    THEN JArr([i \in 1..Len(v.xs) |-> ToJsonScalar(v.xs[i])])
    ELSE ToJsonScalar(v)

\* json.dump of one kb_songs entry
SongToJson(song) ==
    JObj(<< <<"mbid", ToJson(song.mbid)>>, <<"artist", ToJson(song.artist)>>,
            <<"track", ToJson(song.track)>>, <<"album", ToJson(song.album)>> >>)

\* json.dump of the dict returned by build_knowledge_base, line 303 and 325
DumpStore(s, f, x) ==
    JObj(<<
      <<"songs", JObj([i \in 1..Len(s) |-> <<s[i][1].s, SongToJson(s[i][2])>>])>>,
      <<"facts",
        JObj([n \in 1..Len(FactOrder) |->
          <<FactOrder[n],
            JObj([i \in 1..Len(f[FactOrder[n]]) |->
                   <<f[FactOrder[n]][i][1].s, ToJson(f[FactOrder[n]][i][2])>>])>>])>>,
      <<"indexes",
        JObj([n \in 1..Len(IndexOrder) |->
          <<IndexOrder[n],
            JObj([i \in 1..Len(x[IndexOrder[n]]) |->
                   <<x[IndexOrder[n]][i][1].s,
                     JArr([k \in 1..Len(x[IndexOrder[n]][i][2]) |->
                            ToJsonScalar(x[IndexOrder[n]][i][2][k])])>>])>>])>>
    >>)

\* json.load of a scalar
FromJsonScalar(jv) ==
    CASE jv.j = "string" -> Str(jv.s)
      [] jv.j = "number" -> Num(jv.n)
      [] OTHER -> None

\* json.load of a fact value
FromJson(jv) ==
    IF jv.j = "array"
    THEN List([i \in 1..Len(jv.xs) |-> FromJsonScalar(jv.xs[i])])
    ELSE FromJsonScalar(jv)

\* json.load of an object: a repeated member name keeps its last value
RECURSIVE LoadMembers(_, _)
LoadMembers(d, ms) ==
    IF ms = <<>> THEN d
    ELSE LoadMembers(DictSet(d, Head(ms)[1], Head(ms)[2]), Tail(ms))

Members(jv) == LoadMembers(<<>>, jv.ms)

\* data.get(name, {}) of a loaded object
Member(jv, name) == DictGet(Members(jv), name, JObj(<<>>))

\* one loaded song: a field the document lacks is Absent
SongFromJson(jv) ==
    LET m == Members(jv)
        F(name) == IF HasKey(m, name) THEN FromJson(DictGet(m, name, JNull))
                   ELSE Absent
    IN  [mbid |-> F("mbid"), artist |-> F("artist"), track |-> F("track"),
         album |-> F("album")]

\* self.songs = self.data.get('songs', {}), line 46
LoadSongs(doc) ==
    LET m == Members(Member(doc, "songs"))
    IN  [i \in 1..Len(m) |-> <<Str(m[i][1]), SongFromJson(m[i][2])>>]

\* self.facts = self.data.get('facts', {}), line 47
LoadFacts(doc) ==
    LET m == Members(Member(doc, "facts"))
    IN  [ft \in {m[i][1] : i \in 1..Len(m)} |->
           LET d == Members(DictGet(m, ft, JObj(<<>>)))
           IN  [i \in 1..Len(d) |-> <<Str(d[i][1]), FromJson(d[i][2])>>]]

\* self.indexes = self.data.get('indexes', {}), line 48
LoadIndexes(doc) ==
    LET m == Members(Member(doc, "indexes"))
    IN  [ix \in {m[i][1] : i \in 1..Len(m)} |->
           LET d == Members(DictGet(m, ix, JObj(<<>>)))
           IN  [i \in 1..Len(d) |->
                  <<Str(d[i][1]),
                    [k \in 1..Len(d[i][2].xs) |-> FromJsonScalar(d[i][2].xs[k])]>>]]

---------------------------------------------------------------------------
(* The song records the builder is fed *)

Mbids == {Str(<<"1">>), Str(<<"2">>)}

\* a record with no identifier: the key is missing, null or empty
NoMbid == {Absent, None, Str(<<>>)}

BaseSong(m) ==
    [mbid |-> m, artist |-> Absent, track |-> Absent, album |-> Absent,
     audio_features |-> Absent, genres |-> Absent, danceable |-> Absent,
     voice_instrumental |-> Absent, timbre |-> Absent, moods |-> Absent]

NoFeatures ==
    [tempo |-> Absent, key |-> Absent, mode |-> Absent, loudness |-> Absent,
     duration |-> Absent]

\* genres / moods lists: repeated, differently cased, padded and blank labels
LabelLists ==
    {List(<<>>),
     List(<<Str(<<"a">>)>>),
     List(<<Str(<<"a">>), Str(<<"a">>)>>),
     List(<<Str(<<"A">>), Str(<<"a">>)>>),
     List(<<Str(<<"b">>), Str(<<"a", " ">>), Str(<<"b">>)>>),
     List(<<Str(<<" ">>), Str(<<"b">>)>>)}

\* audio_features dicts; numbers are in tenths (1259 is 125.9)
FeatureDicts ==
    {Dict(NoFeatures),
     Dict([NoFeatures EXCEPT !.tempo = Num(1259)]),
     Dict([NoFeatures EXCEPT !.tempo = Num(1300), !.loudness = Num(-85)]),
     Dict([NoFeatures EXCEPT !.tempo = Num(0), !.loudness = Num(0)]),
     Dict([NoFeatures EXCEPT !.tempo = None, !.key = Str(<<"A", " ", "b">>),
                             !.mode = Str(<<"b">>), !.duration = Num(0)]),
     Dict([NoFeatures EXCEPT !.tempo = Num(-5), !.key = Str(<<>>),
                             !.mode = None, !.loudness = None])}

\* a shorter choice of label lists
FewLabelLists ==
    {List(<<Str(<<"a">>)>>),
     List(<<Str(<<"b">>), Str(<<"a", " ">>), Str(<<"b">>)>>),
     List(<<Str(<<" ">>), Str(<<"b">>)>>)}

ScalarLabels == {None, Str(<<>>), Str(<<"a">>), Str(<<"A">>)}

Records ==
    {BaseSong(m) : m \in NoMbid \cup Mbids}
    \cup {[BaseSong(Str(<<"1">>)) EXCEPT !.genres = g] : g \in LabelLists}
    \cup {[BaseSong(Str(<<"2">>)) EXCEPT !.genres = g] : g \in FewLabelLists}
    \cup {[BaseSong(m) EXCEPT !.moods = g] : m \in Mbids, g \in FewLabelLists}
    \cup {[BaseSong(Str(<<"1">>)) EXCEPT !.audio_features = af] :
            af \in FeatureDicts}
    \cup {[BaseSong(Str(<<"1">>)) EXCEPT !.danceable = l] : l \in ScalarLabels}
    \cup {[BaseSong(Str(<<"2">>)) EXCEPT !.voice_instrumental = l, !.timbre = l] :
            l \in ScalarLabels}
    \cup {[BaseSong(m) EXCEPT !.track = Str(<<"A", "b">>), !.artist = Str(<<"b">>),
                              !.album = Str(<<"a">>)] : m \in Mbids}
    \cup {[BaseSong(Str(<<"1">>)) EXCEPT !.track = None, !.artist = Str(<<>>)],
          [BaseSong(Str(<<"2">>)) EXCEPT !.audio_features = None],
          [BaseSong(Str(<<"2">>)) EXCEPT !.genres = None],
          [BaseSong(Str(<<"2">>)) EXCEPT !.moods = None,
                                         !.genres = List(<<Str(<<"a">>)>>)],
          [BaseSong(Str(<<>>)) EXCEPT !.audio_features = None, !.genres = None],
          [BaseSong(None) EXCEPT !.genres = List(<<Str(<<"a">>)>>),
                                 !.danceable = Str(<<"a">>),
                                 !.audio_features =
                                     Dict([NoFeatures EXCEPT !.tempo = Num(1259)])]}

---------------------------------------------------------------------------
(* Build, save and load *)

NoCall == [op |-> "none"]
NoResult == [kind |-> "none"]
NoFacts == [ft \in {} |-> <<>>]

Init ==
    /\ input = <<>>
    /\ pc = "fold"
    /\ kb_songs = <<>>
    /\ facts = EmptyFacts
    /\ indexes = EmptyIndexes
    /\ document = JNull
    /\ self_songs = <<>>
    /\ self_facts = NoFacts
    /\ self_indexes = NoFacts
    /\ call = NoCall
    /\ result = NoResult

\* one iteration of `for song in songs`, lines 251-298
FoldRecord ==
    /\ pc = "fold"
    /\ Len(input) < MaxRecords
    /\ \E song \in Records :
         LET st == FoldSong(BuildState(kb_songs, facts, indexes, "none"), song)
         IN  /\ input' = Append(input, song)
             /\ kb_songs' = st.songs
             /\ facts' = st.facts
             /\ indexes' = st.indexes
             /\ pc' = IF st.err = "none" THEN "fold" ELSE "raised"
    /\ UNCHANGED <<document, self_songs, self_facts, self_indexes, call, result>>

\* the loop is over: lines 299-303
Return ==
    /\ pc = "fold"
    /\ facts' = DedupFacts(facts)
    /\ pc' = "built"
    /\ UNCHANGED <<input, kb_songs, indexes, document, self_songs, self_facts,
                   self_indexes, call, result>>

\* run(): json.dump(kb, f), lines 322-325
Save ==
    /\ pc = "built"
    /\ document' = DumpStore(kb_songs, facts, indexes)
    /\ pc' = "saved"
    /\ UNCHANGED <<input, kb_songs, facts, indexes, self_songs, self_facts,
                   self_indexes, call, result>>

\* KnowledgeBase.__init__, lines 36-48
Load ==
    /\ pc = "saved"
    /\ self_songs' = LoadSongs(document)
    /\ self_facts' = LoadFacts(document)
    /\ self_indexes' = LoadIndexes(document)
    /\ pc' = "loaded"
    /\ UNCHANGED <<input, kb_songs, facts, indexes, document, call, result>>

Next == FoldRecord \/ Return \/ Save \/ Load

Spec == Init /\ [][Next]_vars

---------------------------------------------------------------------------
(* KnowledgeBase: point lookups *)

\* self.facts.get(fact_type, {}) / self.indexes.get(index_name, {})
SubDict(f, name) == IF name \in DOMAIN f THEN f[name] ELSE <<>>

\* get_song, line 60
get_song(mbid) == DictGet(self_songs, mbid, None)

\* get_fact, lines 73-74
get_fact(fact_type, mbid) == DictGet(SubDict(self_facts, fact_type), mbid, None)

\* A presence check that tests the value instead of the key
has_fact_by_value(fact_type, mbid) == Truthy(get_fact(fact_type, mbid))

\* has_fact, lines 198-199
has_fact(fact_type, mbid) == HasKey(SubDict(self_facts, fact_type), mbid)

---------------------------------------------------------------------------
(* Claims about the builder and the round trip *)

\* the records of the input that the fold registered under sid
RecordsOf(sid) ==
    SelectSeq(input, LAMBDA r : Truthy(Get(r.mbid, None)) /\ Get(r.mbid, None) = sid)

\* every label the fold appended for sid, in input order
RECURSIVE AppendedLabels(_, _)
AppendedLabels(rs, field) ==
    IF rs = <<>> THEN <<>>
    ELSE Get(Head(rs)[field], List(<<>>)).xs \o AppendedLabels(Tail(rs), field)

FirstIndex(xs, x) == CHOOSE i \in 1..Len(xs) : xs[i] = x /\ \A j \in 1..(i - 1) : xs[j] # x

Built == pc \in {"built", "saved", "loaded"}

\* C1: during and after the fold, every song id that is a key of a facts
\* mapping or an element of an index list is a key of songs.
C1_FactAndIndexIdsRegistered ==
    /\ \A ft \in FactTypes : \A i \in 1..Len(facts[ft]) :
         HasKey(kb_songs, facts[ft][i][1])
    /\ \A ix \in IndexNames : \A i \in 1..Len(indexes[ix]) :
         \A k \in 1..Len(indexes[ix][i][2]) :
           HasKey(kb_songs, indexes[ix][i][2][k])

\* A finished build with facts and index entries that was also fed a record
\* carrying genres but no identifier.
C1_Witness ==
    /\ pc = "built"
    /\ kb_songs # <<>>
    /\ \E ft \in FactTypes : facts[ft] # <<>>
    /\ \E ix \in IndexNames : indexes[ix] # <<>>
    /\ \E i \in 1..Len(input) :
         ~Truthy(Get(input[i].mbid, None)) /\ input[i].genres.tag = "list"

\* C3: in the returned store every has_genre and has_mood value is a list
\* without a repeated element, holding exactly the strings appended for that
\* song, ordered by their first appearance in the input.
C3_LabelFactsDeduplicated ==
    Built =>
      \A field \in {"genres", "moods"} :
        LET d == facts[IF field = "genres" THEN "has_genre" ELSE "has_mood"] IN
        \A i \in 1..Len(d) :
          LET xs == d[i][2].xs
              app == AppendedLabels(RecordsOf(d[i][1]), field)
          IN  /\ NoRepeat(xs)
              /\ Elems(xs) = Elems(app)
              /\ \A a, b \in 1..Len(xs) :
                   a < b => FirstIndex(app, xs[a]) < FirstIndex(app, xs[b])

\* A returned store in which one song was fed a repeated mood and, over two
\* records, a repeated genre.
C3_Witness ==
    /\ pc = "built"
    /\ \E i \in 1..Len(facts["has_mood"]) :
         LET app == AppendedLabels(RecordsOf(facts["has_mood"][i][1]), "moods")
         IN  ~NoRepeat(app) /\ Len(facts["has_mood"][i][2].xs) = 2
    /\ \E i \in 1..Len(facts["has_genre"]) :
         /\ Len(RecordsOf(facts["has_genre"][i][1])) = 2
         /\ ~NoRepeat(AppendedLabels(RecordsOf(facts["has_genre"][i][1]), "genres"))

\* C4: loading the document that the build wrote reproduces songs, facts and
\* indexes: get_fact returns each built value and each index list comes back
\* with the same ids in the same order and multiplicity.
C4_RoundTrip ==
    pc = "loaded" =>
      /\ self_songs = kb_songs
      /\ DOMAIN self_facts = FactTypes
      /\ DOMAIN self_indexes = IndexNames
      /\ \A ft \in FactTypes :
           /\ DictKeys(self_facts[ft]) = DictKeys(facts[ft])
           /\ \A sid \in Mbids : get_fact(ft, sid) = DictGet(facts[ft], sid, None)
      /\ \A ix \in IndexNames :
           /\ DictKeys(self_indexes[ix]) = DictKeys(indexes[ix])
           /\ \A i \in 1..Len(indexes[ix]) :
                DictGet(self_indexes[ix], indexes[ix][i][1], <<>>) = indexes[ix][i][2]

\* A loaded store holding a zero tempo, a deduplicated genre list and an
\* index list that names one song twice.
C4_Witness ==
    /\ pc = "loaded"
    /\ \E sid \in Mbids : get_fact("has_tempo", sid) = Num(0)
    /\ \E sid \in Mbids : get_fact("has_genre", sid).tag = "list"
    /\ \E i \in 1..Len(self_indexes["by_genre"]) :
         ~NoRepeat(self_indexes["by_genre"][i][2])

---------------------------------------------------------------------------
(* KnowledgeBase: lookup by name *)

Returned(v, n) == [kind |-> "return", value |-> v, scanned |-> n]
Raise(e, n) == [kind |-> "raise", exc |-> e, scanned |-> n]

\* song.get('track', '') / song.get('artist', '')
TrackOf(song) == Get(song.track, Str(<<>>))
ArtistOf(song) == Get(song.artist, Str(<<>>))

\* s.strip().lower()
Fold(s) == Lower(Strip(s))

\* A substring test in one direction only
OneWay(x, y) == In(x, y)

\* `x in y or y in x`, lines 237 and 241
EitherWay(x, y) == In(x, y) \/ In(y, x)

\* _exact_match_search, lines 212-221, from the i-th song on.  .strip() on a
\* null track or artist raises AttributeError.
RECURSIVE ExactScan(_, _, _)
ExactScan(i, track_lower, artist_lower) ==
    IF i > Len(self_songs) THEN Returned(None, Len(self_songs))
    ELSE LET song == self_songs[i][2] IN
         IF ~IsStr(TrackOf(song)) \/ ~IsStr(ArtistOf(song))
         THEN Raise("AttributeError", i)
         ELSE IF /\ Fold(TrackOf(song).s) = track_lower
                 /\ (IsNone(artist_lower) \/ Fold(ArtistOf(song).s) = artist_lower.s)
              THEN Returned(self_songs[i][1], i)
              ELSE ExactScan(i + 1, track_lower, artist_lower)

_exact_match_search(track_lower, artist_lower) ==
    ExactScan(1, track_lower, artist_lower)

\* _partial_match_search, lines 234-243, from the i-th song on
RECURSIVE PartialScan(_, _, _)
PartialScan(i, track_lower, artist_lower) ==
    IF i > Len(self_songs) THEN Returned(None, Len(self_songs))
    ELSE LET song == self_songs[i][2] IN
         IF ~IsStr(TrackOf(song)) THEN Raise("AttributeError", i)
         ELSE LET song_track == Fold(TrackOf(song).s) IN
              IF EitherWay(track_lower, song_track)
              THEN IF IsNone(artist_lower) THEN Returned(self_songs[i][1], i)
                   ELSE IF ~IsStr(ArtistOf(song)) THEN Raise("AttributeError", i)
                   ELSE LET song_artist == Fold(ArtistOf(song).s) IN
                        IF EitherWay(artist_lower.s, song_artist)
                        THEN Returned(self_songs[i][1], i)
                        ELSE PartialScan(i + 1, track_lower, artist_lower)
              ELSE PartialScan(i + 1, track_lower, artist_lower)

_partial_match_search(track_lower, artist_lower) ==
    PartialScan(1, track_lower, artist_lower)

\* A lookup that never falls back to the partial phase
ExactOnly(exact, track_lower, artist_lower) == exact

\* A lookup that takes the first partial match, exact or not
PartialFirst(exact, track_lower, artist_lower) ==
    IF exact.kind = "raise" THEN exact
    ELSE _partial_match_search(track_lower, artist_lower)

\* lines 272-277: the exact result if truthy, else the partial phase
ExactThenPartial(exact, track_lower, artist_lower) ==
    IF exact.kind = "raise" \/ Truthy(exact.value) THEN exact
    ELSE LET partial == _partial_match_search(track_lower, artist_lower)
         IN  [partial EXCEPT !.scanned = @ + exact.scanned]

\* A validation that lets a blank track name through
ValidateTypesOnly(track_name, artist_name) ==
    IF ~IsStr(track_name) THEN "TypeError"
    ELSE IF ~IsNone(artist_name) /\ ~IsStr(artist_name) THEN "TypeError"
    ELSE "ok"

\* lines 261-266
Validate(track_name, artist_name) ==
    IF ~IsStr(track_name) THEN "TypeError"
    ELSE IF ~Truthy(Str(Strip(track_name.s))) THEN "ValueError"
    ELSE IF ~IsNone(artist_name) /\ ~IsStr(artist_name) THEN "TypeError"
    ELSE "ok"

\* get_mbid_by_song, lines 261-277
get_mbid_by_song(track_name, artist_name) ==
    IF Validate(track_name, artist_name) # "ok"
    THEN Raise(Validate(track_name, artist_name), 0)
    ELSE LET track_lower == Lower(Strip(track_name.s))
             artist_lower == IF Truthy(artist_name)
                             THEN Str(Lower(Strip(artist_name.s))) ELSE None
         IN  ExactThenPartial(_exact_match_search(track_lower, artist_lower),
                              track_lower, artist_lower)

\* A filter that compares the track only in one direction
TrackMatchesOneWay(track_lower, song_track) ==
    track_lower = song_track \/ In(track_lower, song_track)

\* lines 300-302
TrackMatches(track_lower, song_track) ==
    \/ track_lower = song_track
    \/ In(track_lower, song_track)
    \/ In(song_track, track_lower)

\* lines 295-315, from the i-th song on
RECURSIVE FindScan(_, _, _, _)
FindScan(i, matches, track_lower, artist_lower) ==
    IF i > Len(self_songs) THEN Returned(matches, Len(self_songs))
    ELSE LET song == self_songs[i][2] IN
         IF ~IsStr(TrackOf(song)) \/ ~IsStr(ArtistOf(song))
         THEN Raise("AttributeError", i)
         ELSE LET song_track == Fold(TrackOf(song).s)
                  song_artist == Fold(ArtistOf(song).s)
                  hit == /\ TrackMatches(track_lower, song_track)
                         /\ Truthy(artist_lower) =>
                              \/ artist_lower.s = song_artist
                              \/ In(artist_lower.s, song_artist)
                              \/ In(song_artist, artist_lower.s)
              IN  FindScan(i + 1,
                           IF hit THEN Append(matches, self_songs[i][1]) ELSE matches,
                           track_lower, artist_lower)

\* find_songs_by_name, lines 290-317.  There is no validation: .strip() on a
\* non-string argument raises AttributeError.
find_songs_by_name(track_name, artist_name) ==
    IF ~IsStr(track_name) THEN Raise("AttributeError", 0)
    ELSE IF Truthy(artist_name) /\ ~IsStr(artist_name) THEN Raise("AttributeError", 0)
    ELSE LET track_lower == Lower(Strip(track_name.s))
             artist_lower == IF Truthy(artist_name)
                             THEN Str(Lower(Strip(artist_name.s))) ELSE None
         IN  FindScan(1, <<>>, track_lower, artist_lower)

---------------------------------------------------------------------------
(* KnowledgeBase: indexed, range and enumeration queries *)

\* a Python set
Set(S) == [tag |-> "set", elems |-> S]

\* self.indexes.get(index_name, {}).get(label.lower(), []): the stored list
SongsBy(index_name, label) ==
    IF ~IsStr(label) THEN Raise("AttributeError", 0)
    ELSE Returned(List(DictGet(SubDict(self_indexes, index_name),
                               Str(Lower(label.s)), <<>>)), 0)

\* songs_by_genre, lines 86-87
songs_by_genre(genre) == SongsBy("by_genre", genre)

\* songs_by_danceable, lines 99-100
songs_by_danceable(danceable) == SongsBy("by_danceable", danceable)

\* songs_by_voice_instrumental, lines 112-113
songs_by_voice_instrumental(voice_type) ==
    SongsBy("by_voice_instrumental", voice_type)

\* songs_by_timbre, lines 125-126
songs_by_timbre(timbre) == SongsBy("by_timbre", timbre)

\* songs_by_mood, lines 138-139
songs_by_mood(mood) == SongsBy("by_mood", mood)

\* A range test that leaves both bounds out
InRangeExclusive(min_loudness, loudness, max_loudness) ==
    min_loudness.n < loudness.n /\ loudness.n < max_loudness.n

\* min_loudness <= loudness <= max_loudness, line 155
InRange(min_loudness, loudness, max_loudness) ==
    min_loudness.n <= loudness.n /\ loudness.n <= max_loudness.n

\* the comprehension of lines 153-156 from entry i on; comparing a number
\* with a str or a list raises TypeError
RECURSIVE LoudnessScan(_, _, _, _, _)
LoudnessScan(loudness_facts, i, found, min_loudness, max_loudness) ==
    IF i > Len(loudness_facts) THEN Returned(List(found), i - 1)
    ELSE LET mbid == loudness_facts[i][1]
             loudness == loudness_facts[i][2]
         IN  IF IsNone(loudness)
             THEN LoudnessScan(loudness_facts, i + 1, found,
                               min_loudness, max_loudness)
             ELSE IF loudness.tag # "num" THEN Raise("TypeError", i)
             ELSE IF InRange(min_loudness, loudness, max_loudness)
             THEN LoudnessScan(loudness_facts, i + 1, Append(found, mbid),
                               min_loudness, max_loudness)
             ELSE LoudnessScan(loudness_facts, i + 1, found,
                               min_loudness, max_loudness)

\* songs_in_loudness_range, lines 152-156
songs_in_loudness_range(min_loudness, max_loudness) ==
    LoudnessScan(SubDict(self_facts, "has_loudness"), 1, <<>>,
                 min_loudness, max_loudness)

\* get_all_genres, lines 165-166
get_all_genres ==
    Set(Elems(DictKeys(SubDict(self_indexes, "by_genre"))))

\* get_all_moods, lines 175-176
get_all_moods ==
    Set(Elems(DictKeys(SubDict(self_indexes, "by_mood"))))

\* get_all_songs, line 185
get_all_songs == List(DictKeys(self_songs))

---------------------------------------------------------------------------
(* Store documents the query engine is loaded from *)

\* (track, artist) of a stored song; Absent: the document has no such member
SongPool ==
    {[track |-> Str(<<"a">>), artist |-> Str(<<"b">>)],
     [track |-> Str(<<"a">>), artist |-> Str(<<>>)],
     [track |-> Str(<<"a", "b">>), artist |-> Str(<<"b">>)],
     [track |-> Str(<<"A", "b", " ">>), artist |-> Str(<<" ", "B">>)],
     [track |-> Str(<<"a", "b">>), artist |-> Str(<<"a", "b">>)],
     [track |-> Str(<<"b">>), artist |-> Absent],
     [track |-> Str(<<>>), artist |-> Str(<<"b">>)],
     [track |-> Absent, artist |-> Absent],
     [track |-> None, artist |-> Str(<<"b">>)]}

SongLists == UNION {[1..n -> SongPool] : n \in 0..MaxSongs}

\* the id of the i-th song of a document
SongId(i) == <<Digits[i + 1]>>

Ids == {Str(SongId(i)) : i \in 1..(MaxSongs + 1)}

OptMember(name, v) == IF v.tag = "absent" THEN <<>> ELSE << <<name, ToJson(v)>> >>

SongDoc(i, p) ==
    JObj(<< <<"mbid", JStr(SongId(i))>> >> \o OptMember("artist", p.artist)
         \o OptMember("track", p.track) \o << <<"album", JStr(<<>>)>> >>)

SongsDoc(sl) == JObj([i \in 1..Len(sl) |-> <<SongId(i), SongDoc(i, sl[i])>>])

\* "facts" members: none; falsy, null and ordinary values
FactDocs ==
    {JObj(<<>>),
     JObj(<< <<"has_tempo", JObj(<< <<SongId(1), JNum(0)>>,
                                    <<SongId(2), JNum(1300)>> >>)>>,
             <<"has_key", JObj(<< <<SongId(1), JStr(<<>>)>>,
                                  <<SongId(2), JStr(<<"A">>)>> >>)>>,
             <<"has_genre", JObj(<< <<SongId(1), JArr(<<>>)>>,
                                    <<SongId(2), JNull>>,
                                    <<SongId(3), JArr(<<JStr(<<"a">>)>>)>> >>)>>,
             <<"has_loudness", JObj(<< <<SongId(3), JNum(0)>>,
                                       <<SongId(1), JNull>>,
                                       <<SongId(2), JNum(-85)>> >>)>> >>)}

IndexDocs ==
    {JObj(<< <<"by_genre",
               JObj(<< <<(<<"a">>), JArr(<<JStr(SongId(1)), JStr(SongId(1)),
                                         JStr(SongId(2))>>)>> >>)>>,
             <<"by_mood",
               JObj(<< <<(<<"b">>), JArr(<<JStr(SongId(2))>>)>>,
                       <<(<<"a">>), JArr(<<JStr(SongId(3))>>)>> >>)>> >>)}

Documents ==
    {JObj(<< <<"songs", SongsDoc(sl)>>, <<"facts", f>>, <<"indexes", x>> >>) :
        sl \in SongLists, f \in FactDocs, x \in IndexDocs}
    \cup {JObj(<< <<"songs", SongsDoc(sl)>> >>) : sl \in SongLists}

\* fact types and arguments the point lookups are asked for
QueryFactTypes == {"has_tempo", "has_key", "has_genre", "has_loudness", "has_mood"}

QueryTracks ==
    {Num(7), Str(<<>>), Str(<<" ">>), Str(<<"a">>), Str(<<"a", "b">>), Str(<<" ", "a", "B">>), Str(<<"b">>),
     Str(<<"b", "a", "b">>), Str(<<"a", "a">>)}

QueryArtists ==
    {None, Num(7), Str(<<>>), Str(<<" ">>), Str(<<"b">>), Str(<<"B", " ">>),
     Str(<<"a">>)}

\* category labels asked for: stored, stored in another case, unknown, empty
QueryLabels == {Str(<<"a">>), Str(<<"A">>), Str(<<"b">>), Str(<<"z">>), Str(<<>>)}

\* bounds of the loudness ranges asked for
QueryLoudness == {Num(-100), Num(-85), Num(-1), Num(0), Num(10)}

---------------------------------------------------------------------------
(* The query engine over a loaded document *)

InitQuery ==
    /\ input = <<>>
    /\ pc = "saved"
    /\ kb_songs = <<>>
    /\ facts = EmptyFacts
    /\ indexes = EmptyIndexes
    /\ document \in Documents
    /\ self_songs = <<>>
    /\ self_facts = NoFacts
    /\ self_indexes = NoFacts
    /\ call = NoCall
    /\ result = NoResult

\* A lookup that creates the genre index it does not find (setdefault)
FrameWithSetDefault ==
    /\ pc' = "answered"
    /\ self_indexes' = [ix \in DOMAIN self_indexes \cup {"by_genre"} |->
                          SubDict(self_indexes, ix)]
    /\ UNCHANGED <<input, kb_songs, facts, indexes, document,
                   self_songs, self_facts>>

\* A query leaves the store as it was
Frame ==
    /\ pc' = "answered"
    /\ UNCHANGED <<input, kb_songs, facts, indexes, document,
                   self_songs, self_facts, self_indexes>>

GetFact ==
    /\ pc = "loaded"
    /\ \E ft \in QueryFactTypes, id \in Ids :
         /\ call' = [op |-> "get_fact", fact_type |-> ft, mbid |-> id]
         /\ result' = Returned(get_fact(ft, id), 0)
    /\ Frame

HasFact ==
    /\ pc = "loaded"
    /\ \E ft \in QueryFactTypes, id \in Ids :
         /\ call' = [op |-> "has_fact", fact_type |-> ft, mbid |-> id]
         /\ result' = Returned(has_fact(ft, id), 0)
    /\ Frame

GetMbidBySong ==
    /\ pc = "loaded"
    /\ \E t \in QueryTracks, a \in QueryArtists :
         /\ call' = [op |-> "get_mbid_by_song", track_name |-> t, artist_name |-> a]
         /\ result' = get_mbid_by_song(t, a)
    /\ Frame

FindSongsByName ==
    /\ pc = "loaded"
    /\ \E t \in QueryTracks, a \in QueryArtists :
         /\ call' = [op |-> "find_songs_by_name", track_name |-> t, artist_name |-> a]
         /\ result' = find_songs_by_name(t, a)
    /\ Frame

GetSong ==
    /\ pc = "loaded"
    /\ \E id \in Ids :
         /\ call' = [op |-> "get_song", mbid |-> id]
         /\ result' = Returned(get_song(id), 0)
    /\ Frame

SongsByGenre ==
    /\ pc = "loaded"
    /\ \E label \in QueryLabels :
         /\ call' = [op |-> "songs_by_genre", label |-> label]
         /\ result' = songs_by_genre(label)
    /\ Frame

SongsByDanceable ==
    /\ pc = "loaded"
    /\ \E label \in QueryLabels :
         /\ call' = [op |-> "songs_by_danceable", label |-> label]
         /\ result' = songs_by_danceable(label)
    /\ Frame

SongsByVoiceInstrumental ==
    /\ pc = "loaded"
    /\ \E label \in QueryLabels :
         /\ call' = [op |-> "songs_by_voice_instrumental", label |-> label]
         /\ result' = songs_by_voice_instrumental(label)
    /\ Frame

SongsByTimbre ==
    /\ pc = "loaded"
    /\ \E label \in QueryLabels :
         /\ call' = [op |-> "songs_by_timbre", label |-> label]
         /\ result' = songs_by_timbre(label)
    /\ Frame

SongsByMood ==
    /\ pc = "loaded"
    /\ \E label \in QueryLabels :
         /\ call' = [op |-> "songs_by_mood", label |-> label]
         /\ result' = songs_by_mood(label)
    /\ Frame

SongsInLoudnessRange ==
    /\ pc = "loaded"
    /\ \E lo \in QueryLoudness, hi \in QueryLoudness :
         /\ call' = [op |-> "songs_in_loudness_range",
                     min_loudness |-> lo, max_loudness |-> hi]
         /\ result' = songs_in_loudness_range(lo, hi)
    /\ Frame

GetAllGenres ==
    /\ pc = "loaded"
    /\ call' = [op |-> "get_all_genres"]
    /\ result' = Returned(get_all_genres, 0)
    /\ Frame

GetAllMoods ==
    /\ pc = "loaded"
    /\ call' = [op |-> "get_all_moods"]
    /\ result' = Returned(get_all_moods, 0)
    /\ Frame

GetAllSongs ==
    /\ pc = "loaded"
    /\ call' = [op |-> "get_all_songs"]
    /\ result' = Returned(get_all_songs, 0)
    /\ Frame

\* the caller has taken the answer; the engine is ready for the next query
QueryDone ==
    /\ pc = "answered"
    /\ pc' = "loaded"
    /\ call' = NoCall
    /\ result' = NoResult
    /\ UNCHANGED <<input, kb_songs, facts, indexes, document,
                   self_songs, self_facts, self_indexes>>

NextQuery ==
    \/ Load
    \/ GetSong
    \/ GetFact
    \/ HasFact
    \/ SongsByGenre
    \/ SongsByDanceable
    \/ SongsByVoiceInstrumental
    \/ SongsByTimbre
    \/ SongsByMood
    \/ SongsInLoudnessRange
    \/ GetAllGenres
    \/ GetAllMoods
    \/ GetAllSongs
    \/ GetMbidBySong
    \/ FindSongsByName
    \/ QueryDone

SpecQuery == InitQuery /\ [][NextQuery]_vars

---------------------------------------------------------------------------
(* Claims about the query engine *)

\* every stored track and artist is a string or missing, as the data model
\* of a song requires
StringNames ==
    \A i \in 1..Len(self_songs) :
      IsStr(TrackOf(self_songs[i][2])) /\ IsStr(ArtistOf(self_songs[i][2]))

SongTrack(i) == Fold(TrackOf(self_songs[i][2]).s)
SongArtist(i) == Fold(ArtistOf(self_songs[i][2]).s)

\* an artist is supplied when the argument is a non-empty string
Supplied(artist_name) == IsStr(artist_name) /\ artist_name.s # <<>>

\* positions of the songs that equal the query after trimming and lowering
ExactSet(track_name, artist_name) ==
    {i \in 1..Len(self_songs) :
       /\ SongTrack(i) = Fold(track_name.s)
       /\ Supplied(artist_name) => SongArtist(i) = Fold(artist_name.s)}

Sub(x, y) == In(x, y) \/ In(y, x)

\* positions of the songs that contain the query or are contained in it
PartialSet(track_name, artist_name) ==
    {i \in 1..Len(self_songs) :
       /\ Sub(Fold(track_name.s), SongTrack(i))
       /\ Supplied(artist_name) => Sub(Fold(artist_name.s), SongArtist(i))}

First(S) == CHOOSE i \in S : \A j \in S : i <= j

Position(id) == CHOOSE i \in 1..Len(self_songs) : self_songs[i][1] = id

ValidCall ==
    /\ IsStr(call.track_name) /\ Strip(call.track_name.s) # <<>>
    /\ IsNone(call.artist_name) \/ IsStr(call.artist_name)

\* the entry of the document under facts.fact_type for mbid, as a set of
\* at most one JSON value
DocEntries(fact_type, mbid) ==
    LET fs == Members(Member(document, "facts"))
        d == Members(DictGet(fs, fact_type, JObj(<<>>)))
    IN  {d[i][2] : i \in {k \in 1..Len(d) : d[k][1] = mbid.s}}

\* C2 as stated: has_fact is true exactly when get_fact returns a non-None
\* value, whatever the stored value, null included.
C2_HasFactIffGetFact ==
    call.op = "has_fact" =>
      (result.value <=> ~IsNone(get_fact(call.fact_type, call.mbid)))

\* C2 amended: has_fact is true exactly when the document holds an entry for
\* the id under the fact type; for an entry that is not null (0, "" and []
\* included) get_fact returns a non-None value, and for a null entry or no
\* entry get_fact returns None.
C2_HasFactIffEntry ==
    call.op = "has_fact" =>
      LET es == DocEntries(call.fact_type, call.mbid)
          got == get_fact(call.fact_type, call.mbid)
      IN  /\ result.value <=> es # {}
          /\ ~IsNone(got) <=> (es # {} /\ es # {JNull})

\* has_fact was asked about an entry whose stored value is the number 0.
C2_Witness ==
    /\ call.op = "has_fact"
    /\ result.value = TRUE
    /\ get_fact(call.fact_type, call.mbid) = Num(0)

\* C5: when some song equals the query exactly, get_mbid_by_song returns the
\* first such song in registration order, scanning no further than it, even
\* if an earlier song matches by substring.
C5_ExactMatchFirst ==
    (call.op = "get_mbid_by_song" /\ ValidCall /\ StringNames) =>
      LET E == ExactSet(call.track_name, call.artist_name) IN
      E # {} => result = Returned(self_songs[First(E)][1], First(E))

\* The second song is returned as the exact match for a query with an artist
\* while the first song matches that query by substring.
C5_Witness ==
    /\ call.op = "get_mbid_by_song" /\ ValidCall /\ StringNames
    /\ Supplied(call.artist_name)
    /\ ExactSet(call.track_name, call.artist_name) # {}
    /\ First(ExactSet(call.track_name, call.artist_name)) = 2
    /\ 1 \in PartialSet(call.track_name, call.artist_name)
    /\ result.kind = "return" /\ result.value = self_songs[2][1]

FoundForCall == find_songs_by_name(call.track_name, call.artist_name).value

\* C7 as stated: get_mbid_by_song returns the first identifier of the list
\* find_songs_by_name returns for the same arguments, None when it is empty.
C7_FirstOfFound ==
    (call.op = "get_mbid_by_song" /\ ValidCall /\ StringNames) =>
      /\ result.kind = "return"
      /\ result.value = IF FoundForCall = <<>> THEN None ELSE FoundForCall[1]

\* C7 amended: get_mbid_by_song returns one of the identifiers in the list
\* find_songs_by_name returns for the same arguments, and None exactly when
\* that list is empty; it is the first of the list unless some song equals
\* the query exactly.
C7_OneOfFound ==
    (call.op = "get_mbid_by_song" /\ ValidCall /\ StringNames) =>
      /\ result.kind = "return"
      /\ IsNone(result.value) <=> FoundForCall = <<>>
      /\ ~IsNone(result.value) => result.value \in Elems(FoundForCall)
      /\ (ExactSet(call.track_name, call.artist_name) = {} /\ FoundForCall # <<>>)
           => result.value = FoundForCall[1]

\* find_songs_by_name would return two songs and get_mbid_by_song returned
\* the second of them.
C7_Witness ==
    /\ call.op = "get_mbid_by_song" /\ ValidCall /\ StringNames
    /\ Len(FoundForCall) = 2
    /\ result.kind = "return" /\ result.value = FoundForCall[2]

\* C8: find_songs_by_name returns exactly the ids whose track equals,
\* contains or is contained in the query track and, when an artist is given,
\* whose artist does likewise; each once, in registration order.
C8_FindAllMatches ==
    (/\ call.op = "find_songs_by_name" /\ StringNames /\ IsStr(call.track_name)
     /\ IsNone(call.artist_name) \/ IsStr(call.artist_name)) =>
      LET q == Fold(call.track_name.s)
          M == {i \in 1..Len(self_songs) :
                  /\ q = SongTrack(i) \/ Sub(q, SongTrack(i))
                  /\ IsStr(call.artist_name) =>
                       \/ Fold(call.artist_name.s) = SongArtist(i)
                       \/ Sub(Fold(call.artist_name.s), SongArtist(i))}
      IN  /\ result.kind = "return"
          /\ NoRepeat(result.value)
          /\ Elems(result.value) = {self_songs[i][1] : i \in M}
          /\ \A a, b \in 1..Len(result.value) :
               a < b => Position(result.value[a]) < Position(result.value[b])

\* A call with an artist that returned the second of two songs and left out
\* the first, whose track matches but whose artist does not.
C8_Witness ==
    /\ call.op = "find_songs_by_name" /\ StringNames /\ IsStr(call.track_name)
    /\ Supplied(call.artist_name)
    /\ Len(self_songs) = 2
    /\ Sub(Fold(call.track_name.s), SongTrack(1))
    /\ result.kind = "return" /\ result.value = <<self_songs[2][1]>>

\* C9 as stated: with an artist provided, get_mbid_by_song returns an exact
\* match or None, never a song that matches only by substring.
C9_ArtistGivenExactOrNone ==
    (/\ call.op = "get_mbid_by_song" /\ ValidCall /\ StringNames
     /\ Supplied(call.artist_name) /\ result.kind = "return") =>
      \/ IsNone(result.value)
      \/ Position(result.value) \in ExactSet(call.track_name, call.artist_name)

\* C10: get_mbid_by_song rejects a non-string track with TypeError, a track
\* that is blank after trimming with ValueError and, the track being valid,
\* an artist that is neither None nor a string with TypeError; it then has
\* scanned no song, returns nothing, and the store is as it was loaded.
C10_InvalidInputRejected ==
    call.op = "get_mbid_by_song" =>
      LET t == call.track_name
          a == call.artist_name
      IN  /\ ~IsStr(t) => result = Raise("TypeError", 0)
          /\ (IsStr(t) /\ Strip(t.s) = <<>>) => result = Raise("ValueError", 0)
          /\ (IsStr(t) /\ Strip(t.s) # <<>> /\ ~IsNone(a) /\ ~IsStr(a))
               => result = Raise("TypeError", 0)
          /\ ~ValidCall =>
               /\ result.kind = "raise" /\ result.scanned = 0
               /\ self_songs = LoadSongs(document)
               /\ self_facts = LoadFacts(document)
               /\ self_indexes = LoadIndexes(document)

\* A whitespace-only track was rejected with ValueError on a store of songs.
C10_Witness ==
    /\ call.op = "get_mbid_by_song"
    /\ IsStr(call.track_name) /\ call.track_name.s # <<>>
    /\ result = Raise("ValueError", 0)
    /\ self_songs # <<>>

---------------------------------------------------------------------------
(* Claims about the indexed, range and enumeration queries *)

\* the arguments of the call have the types the signatures declare
TypedArguments ==
    call.op = "find_songs_by_name" =>
      /\ IsStr(call.track_name)
      /\ IsNone(call.artist_name) \/ IsStr(call.artist_name)

\* C11 as stated: every query other than get_mbid_by_song, called with
\* arguments of the declared types on any loaded store, returns and raises
\* nothing.
C11_OtherQueriesTotal ==
    (pc = "answered" /\ call.op # "get_mbid_by_song" /\ TypedArguments) =>
      result.kind = "return"

\* C12: once the store is loaded, whatever queries have been answered, the
\* raising ones included, songs, facts and indexes are what the load made
\* of the document.
C12_QueriesLeaveStore ==
    pc \in {"loaded", "answered"} =>
      /\ self_songs = LoadSongs(document)
      /\ self_facts = LoadFacts(document)
      /\ self_indexes = LoadIndexes(document)

\* A name search raised over a store that holds songs, facts and indexes.
C12_Witness ==
    /\ pc = "answered"
    /\ call.op = "find_songs_by_name"
    /\ result.kind = "raise"
    /\ self_songs # <<>>
    /\ "has_loudness" \in DOMAIN self_facts
    /\ "by_genre" \in DOMAIN self_indexes

\* positions of the has_loudness entries whose value is a number within
\* [lo, hi]
LoudWithin(lo, hi) ==
    LET d == SubDict(self_facts, "has_loudness")
    IN  {i \in 1..Len(d) :
           /\ ~IsNone(d[i][2])
           /\ lo.n <= d[i][2].n
           /\ d[i][2].n <= hi.n}

\* C13: songs_in_loudness_range(min, max) returns exactly the ids whose
\* has_loudness value is non-null and lies in [min, max], both bounds
\* included, each id once, in the order of the has_loudness mapping; with
\* min > max it returns nothing.
C13_LoudnessRangeInclusive ==
    call.op = "songs_in_loudness_range" =>
      LET d == SubDict(self_facts, "has_loudness")
          W == LoudWithin(call.min_loudness, call.max_loudness)
          r == result.value.xs
      IN  /\ result.kind = "return"
          /\ Elems(r) = {d[i][1] : i \in W}
          /\ Len(r) = Cardinality(W)
          /\ \A p, q \in 1..Len(r) :
               p < q => \E i, j \in W : i < j /\ d[i][1] = r[p] /\ d[j][1] = r[q]
          /\ call.min_loudness.n > call.max_loudness.n => r = <<>>

\* min = max = -8.5 returned the one song of that loudness, and a wide range
\* is answered in mapping order, which is neither id nor loudness order.
C13_Witness ==
    /\ call.op = "songs_in_loudness_range"
    /\ \/ /\ call.min_loudness = Num(-85) /\ call.max_loudness = Num(-85)
          /\ result.value = List(<<Str(SongId(2))>>)
       \/ /\ call.min_loudness = Num(-100) /\ call.max_loudness = Num(10)
          /\ result.value = List(<<Str(SongId(3)), Str(SongId(2))>>)

---------------------------------------------------------------------------
(* The feature normalizer: parsing of AcousticBrainz JSON *)

\* A JSON object as json.load gives it to the parsers: a dict whose items
\* are <<key, value>> pairs with str keys
Item(key, v) == IF v = Absent THEN <<>> ELSE << <<key, v>> >>

IsDict(v) == v.tag = "dict"

\* _get_nested(data, *keys), lines 26-31
RECURSIVE _get_nested(_, _)
_get_nested(data, keys) ==
    IF keys = <<>> THEN data
    ELSE IF IsNone(data) \/ ~IsDict(data) THEN None
    ELSE _get_nested(DictGet(data.d, Head(keys), None), Tail(keys))

\* x or y
Or(x, y) == IF Truthy(x) THEN x ELSE y

Ok(v) == [ok |-> TRUE, v |-> v]
Fails(e) == [ok |-> FALSE, exc |-> e]

\* float(v): a str of the model holds no numeral
ToFloat(v) ==
    CASE v.tag = "num" -> Ok(v)
      [] v.tag = "str" -> Fails("ValueError")
      [] OTHER -> Fails("TypeError")

\* int(v): truncation toward zero
ToInt(v) ==
    CASE v.tag = "num" -> Ok(Num(IntOf(v.n) * 10))
      [] v.tag = "str" -> Fails("ValueError")
      [] OTHER -> Fails("TypeError")

\* v.lower() of any value
LowerOf(v) == IF IsStr(v) THEN Ok(Str(Lower(v.s))) ELSE Fails("AttributeError")

\* float(v) if v is not None else None
FloatUnlessNone(v) == IF IsNone(v) THEN Ok(None) ELSE ToFloat(v)

\* int(v) if v is not None else None
IntUnlessNone(v) == IF IsNone(v) THEN Ok(None) ELSE ToInt(v)

\* (key_scale or "major").lower() if key_scale else None, line 49
ModeOf(key_scale) ==
    IF Truthy(key_scale)
    THEN LowerOf(Or(key_scale, Str(<<"m", "a", "j", "o", "r">>)))
    ELSE Ok(None)

\* lines 42-45: f"{key_key} {scale}", key_key being a str when truthy
KeyOf(key_key, key_scale) ==
    IF Truthy(key_key)
    THEN LET scale == LowerOf(Or(key_scale, Str(<<"m", "a", "j", "o", "r">>)))
         IN  IF scale.ok THEN Ok(Str(key_key.s \o <<" ">> \o scale.v.s))
             ELSE scale
    ELSE Ok(None)

\* parse_lowlevel_json, lines 36-53: the first conversion that fails ends
\* the call with its exception
parse_lowlevel_json(data) ==
    LET bpm == _get_nested(data, <<"rhythm", "bpm">>)
        key_key == _get_nested(data, <<"tonal", "key_key">>)
        key_scale == _get_nested(data, <<"tonal", "key_scale">>)
        loudness ==
            Or(_get_nested(data, <<"lowlevel", "average_loudness">>),
               _get_nested(data, <<"metadata", "audio_properties", "replay_gain">>))
        duration == _get_nested(data, <<"metadata", "audio_properties", "length">>)
        time_sig == Or(_get_nested(data, <<"rhythm", "beats_count">>),
                       _get_nested(data, <<"rhythm", "time_signature">>))
        key_str == KeyOf(key_key, key_scale)
        tempo == FloatUnlessNone(bpm)
        mode == ModeOf(key_scale)
        ts == IntUnlessNone(time_sig)
        ld == FloatUnlessNone(loudness)
        dur == FloatUnlessNone(duration)
        steps == <<key_str, tempo, mode, ts, ld, dur>>
        failed == {i \in 1..Len(steps) : ~steps[i].ok}
    IN  IF failed # {}
        THEN Raise(steps[CHOOSE i \in failed : \A j \in failed : i <= j].exc, 0)
        ELSE Returned([tempo |-> tempo.v, key |-> key_str.v, mode |-> mode.v,
                       time_signature |-> ts.v, loudness |-> ld.v,
                       duration |-> dur.v], 0)

\* A probability p is held as Num(100 * p).
MinGenreProbability == 30
DefaultMinProb == 50

GenreFields ==
    <<"genre_rosamerica", "genre_electronic", "genre_dortmund", "genre_tzanetakis">>

\* A threshold that lets the probability 0.3 itself pass
AcceptsFrom(prob) == prob.n >= MinGenreProbability

\* float(prob) > 0.3, line 64
Accepts(prob) == prob.n > MinGenreProbability

\* the loop of lines 59-65 from field i on; value is a str when truthy
RECURSIVE GenreScan(_, _, _)
GenreScan(data, i, genres) ==
    IF i > Len(GenreFields) THEN Returned(List(FromKeys(genres)), i - 1)
    ELSE LET genre_obj == DictGet(data.d, GenreFields[i], None)
         IN  IF ~IsDict(genre_obj) THEN GenreScan(data, i + 1, genres)
             ELSE LET value == DictGet(genre_obj.d, "value", None)
                      prob == DictGet(genre_obj.d, "probability", Num(0))
                  IN  IF ~(Truthy(value) /\ Truthy(prob))
                      THEN GenreScan(data, i + 1, genres)
                      ELSE IF ~ToFloat(prob).ok
                      THEN Raise(ToFloat(prob).exc, i)
                      ELSE IF Accepts(ToFloat(prob).v)
                      THEN GenreScan(data, i + 1,
                                     Append(genres, Str(Lower(value.s))))
                      ELSE GenreScan(data, i + 1, genres)

\* parse_highlevel_json, lines 56-66; data.get on a non-dict raises
parse_highlevel_json(data) ==
    IF ~IsDict(data) THEN Raise("AttributeError", 0)
    ELSE GenreScan(data, 1, <<>>)

\* A confidence test that leaves the threshold itself out
ConfidentAbove(prob, min_prob) == prob.n > min_prob.n

\* float(prob) >= min_prob, line 92
Confident(prob, min_prob) == prob.n >= min_prob.n

\* _value_if_confident, lines 85-96; val is a str or None
_value_if_confident(obj, min_prob) ==
    IF ~IsDict(obj) THEN Returned(None, 0)
    ELSE LET val == DictGet(obj.d, "value", None)
             prob == DictGet(obj.d, "probability", Num(0))
         IN  IF IsNone(val) THEN Returned(None, 0)
             ELSE IF ~ToFloat(prob).ok THEN Returned(None, 0)
             ELSE IF Confident(ToFloat(prob).v, min_prob)
             THEN Returned(Str(Lower(Strip(val.s))), 0)
             ELSE Returned(None, 0)

---------------------------------------------------------------------------
(* The feature normalizer: one recording of the dump *)

\* str(val[0]).strip() / val.strip() of a tag, lines 76-81; list items are str
TagOf(val) ==
    CASE val.tag = "list" /\ val.xs # <<>> -> Str(Strip(val.xs[1].s))
      [] val.tag = "str" -> Str(Strip(val.s))
      [] OTHER -> Str(<<>>)

\* root.get(key, {}) of a dict
GetOrEmpty(root, key) == DictGet(root.d, key, Dict(<<>>))

\* parse_metadata_from_dump, lines 69-82
parse_metadata_from_dump(root) ==
    LET meta == GetOrEmpty(root, "metadata")
        tags == IF IsDict(meta) THEN GetOrEmpty(meta, "tags") ELSE Dict(<<>>)
        T(key) == IF IsDict(tags) THEN TagOf(DictGet(tags.d, key, None))
                  ELSE Str(<<>>)
    IN  [artist |-> T("artist"), track |-> T("title"), album |-> T("album")]

\* float(x) inside try / except (TypeError, ValueError): pass, lines 116-125
FloatOrNone(x) == IF IsNone(x) \/ ~ToFloat(x).ok THEN None ELSE ToFloat(x).v

\* (field, label) of the six mood classifiers, lines 137-144
MoodFields ==
    << <<"mood_relaxed", <<"r", "e", "l", "a", "x", "e", "d">>>>,
       <<"mood_sad", <<"s", "a", "d">>>>,
       <<"mood_happy", <<"h", "a", "p", "p", "y">>>>,
       <<"mood_party", <<"p", "a", "r", "t", "y">>>>,
       <<"mood_acoustic", <<"a", "c", "o", "u", "s", "t", "i", "c">>>>,
       <<"mood_electronic", <<"e", "l", "e", "c", "t", "r", "o", "n", "i", "c">>>> >>

\* the value of a classifier field when it is confident and truthy,
\* lines 132-135
LabelOf(high_data, field) ==
    LET val == _value_if_confident(DictGet(high_data.d, field, None),
                                   Num(DefaultMinProb)).value
    IN  IF Truthy(val) THEN val ELSE None

\* the loop of lines 145-149 from mood field i on
RECURSIVE MoodScan(_, _, _)
MoodScan(high_data, i, moods) ==
    IF i > Len(MoodFields) THEN moods
    ELSE LET val == _value_if_confident(DictGet(high_data.d, MoodFields[i][1], None),
                                        Num(DefaultMinProb)).value
         IN  IF val = Str(MoodFields[i][2])
             THEN MoodScan(high_data, i + 1, Append(moods, val))
             ELSE MoodScan(high_data, i + 1, moods)

\* parse_highlevel_extra, lines 99-150; root and high_data are dicts
parse_highlevel_extra(root, high_data) ==
    LET meta == GetOrEmpty(root, "metadata")
        ap == IF IsDict(meta) THEN GetOrEmpty(meta, "audio_properties")
              ELSE Dict(<<>>)
        P(key) == IF IsDict(ap) THEN FloatOrNone(DictGet(ap.d, key, None)) ELSE None
    IN  [danceable |-> LabelOf(high_data, "danceability"),
         voice_instrumental |-> LabelOf(high_data, "voice_instrumental"),
         timbre |-> LabelOf(high_data, "timbre"),
         moods |-> List(MoodScan(high_data, 1, <<>>)),
         duration |-> P("length"),
         loudness |-> P("replay_gain")]

\* a file that is there but cannot be read or decoded
Unreadable == [tag |-> "unreadable"]

\* audio_features = {}, line 177
NoAudioFeatures ==
    [tempo |-> Absent, key |-> Absent, mode |-> Absent,
     time_signature |-> Absent, loudness |-> Absent, duration |-> Absent]

\* bool(audio_features) of line 203
HasAudioFeatures(af) == \E k \in DOMAIN af : af[k] # Absent

\* `if not audio_features and not genres: return None`, lines 203-204
Kept(af, genres, extra) == HasAudioFeatures(af) \/ genres # <<>>

\* lines 196-199: duration and loudness of the metadata fill what the
\* low-level file did not give
FillFrom(af, extra) ==
    LET Missing(k) == af[k] = Absent \/ IsNone(af[k])
        a1 == IF ~IsNone(extra.duration) /\ Missing("duration")
              THEN [af EXCEPT !.duration = extra.duration] ELSE af
    IN  IF ~IsNone(extra.loudness) /\ Missing("loudness")
        THEN [a1 EXCEPT !.loudness = extra.loudness] ELSE a1

\* load_song_from_dump, lines 175-216.  low and high are what json.load
\* gives for the two files, Absent for a path that is not there; only
\* JSONDecodeError and OSError are caught
load_song_from_dump(mbid, low, high) ==
    LET lowParsed == IF low = Absent \/ low = Unreadable
                     THEN Returned(NoAudioFeatures, 0)
                     ELSE parse_lowlevel_json(low)
        highRead == high # Absent /\ high # Unreadable
        high_data == IF highRead /\ IsDict(high)
                     THEN DictGet(high.d, "highlevel", high) ELSE None
        genresParsed == IF highRead /\ IsDict(high)
                        THEN parse_highlevel_json(high_data)
                        ELSE Returned(List(<<>>), 0)
        NoExtra == [danceable |-> None, voice_instrumental |-> None,
                    timbre |-> None, moods |-> List(<<>>),
                    duration |-> None, loudness |-> None]
    IN  IF lowParsed.kind = "raise" THEN lowParsed
        ELSE IF highRead /\ ~IsDict(high) THEN Raise("AttributeError", 0)
        ELSE IF genresParsed.kind = "raise" THEN genresParsed
        ELSE LET metadata_song == IF highRead THEN parse_metadata_from_dump(high)
                                  ELSE [artist |-> Str(<<>>), track |-> Str(<<>>),
                                        album |-> Str(<<>>)]
                 extra == IF highRead THEN parse_highlevel_extra(high, high_data)
                          ELSE NoExtra
                 af == FillFrom(lowParsed.value, extra)
                 genres == genresParsed.value.xs
             IN  IF ~Kept(af, genres, extra) THEN Returned(None, 0)
                 ELSE Returned([mbid |-> mbid,
                                artist |-> metadata_song.artist,
                                track |-> metadata_song.track,
                                album |-> metadata_song.album,
                                audio_features |-> Dict(af),
                                genres |-> List(genres),
                                danceable |-> extra.danceable,
                                voice_instrumental |-> extra.voice_instrumental,
                                timbre |-> extra.timbre,
                                moods |-> extra.moods], 0)

---------------------------------------------------------------------------
(* The documents and values the normalizer is applied to *)

Tempos == {None} \cup {Num(n) : n \in (-MaxTempo)..MaxTempo}

Bpms == {Absent, None, Num(1205), Num(0), Str(<<"a">>)}
BeatCounts == {Absent, Num(0), Num(40)}
TimeSignatures == {Absent, Num(30)}
KeyLetters == {Absent, None, Str(<<>>), Str(<<"A">>)}
KeyScales == {Absent, None, Str(<<"M", "i", "n", "o", "r">>), Num(7)}
AverageLoudness == {Absent, None, Num(0), Num(-85)}
ReplayGains == {Absent, Num(-100)}
Lengths == {Absent, Num(2400), Str(<<"a">>)}

\* a low-level document with the given leaves; a container is there even
\* when it holds nothing
LowLevelDoc(bpm, bc, ts, kk, ks, al, rg, length) ==
    Dict(<< <<"rhythm", Dict(Item("bpm", bpm) \o Item("beats_count", bc)
                             \o Item("time_signature", ts))>>,
            <<"tonal", Dict(Item("key_key", kk) \o Item("key_scale", ks))>>,
            <<"lowlevel", Dict(Item("average_loudness", al))>>,
            <<"metadata",
              Dict(<< <<"audio_properties",
                        Dict(Item("replay_gain", rg) \o Item("length", length))>> >>)>> >>)

\* documents without containers, or with something else in their place
BrokenDocs ==
    {None, Str(<<"a">>), Dict(<<>>),
     Dict(<< <<"rhythm", None>>, <<"tonal", Str(<<"a">>)>>,
             <<"lowlevel", List(<<>>)>>,
             <<"metadata", Dict(<< <<"audio_properties", None>> >>)>> >>)}

LowLevelDocs ==
    {LowLevelDoc(bpm, bc, ts, kk, ks, al, rg, length) :
        bpm \in Bpms, bc \in BeatCounts, ts \in TimeSignatures,
        kk \in KeyLetters, ks \in KeyScales, al \in AverageLoudness,
        rg \in ReplayGains, length \in Lengths}
    \cup BrokenDocs

\* one classifier output {"value": ..., "probability": ...}
Classified(value, prob) == Dict(Item("value", value) \o Item("probability", prob))

GenreObjs ==
    {Absent, None,
     Classified(Str(<<"A">>), Num(80)), Classified(Str(<<"a">>), Num(31)),
     Classified(Str(<<"a">>), Num(30)), Classified(Str(<<"B">>), Num(35)),
     Classified(Str(<<>>), Num(90)), Classified(Str(<<"B">>), Absent),
     Classified(Str(<<"B">>), Str(<<"a">>))}

HighLevelDocs ==
    {Dict(Item(GenreFields[1], g1) \o Item(GenreFields[2], g2)
          \o Item(GenreFields[3], g3) \o Item(GenreFields[4], g4)) :
        g1 \in GenreObjs, g2 \in GenreObjs, g3 \in GenreObjs, g4 \in GenreObjs}
    \cup {None}

ConfidenceObjs ==
    {None, Str(<<"a">>), Dict(<<>>)}
    \cup {Classified(v, p) :
            v \in {Absent, None, Str(<<>>), Str(<<" ", "A", "b", " ">>)},
            p \in {Absent, None, Num(0), Num(30), Num(49), Num(50), Num(80),
                   Str(<<"a">>), List(<<>>)}}

MinProbs == {Num(0), Num(30), Num(DefaultMinProb)}

\* what the low-level file of a recording holds
LowFiles ==
    {Absent, Unreadable, Dict(<<>>),
     LowLevelDoc(Num(1205), Num(40), Absent, Str(<<"A">>), None, Num(-85),
                 Absent, Num(2400)),
     LowLevelDoc(Str(<<"a">>), Absent, Absent, Absent, Absent, Absent,
                 Absent, Absent)}

Happy == <<"h", "a", "p", "p", "y">>

\* the metadata block of a high-level file
Metadatas ==
    {Absent,
     Dict(<< <<"tags", Dict(Item("artist", List(<<Str(<<" ", "B">>)>>))
                            \o Item("title", Str(<<"a", " ">>)))>> >>),
     Dict(<< <<"audio_properties", Dict(Item("length", Num(2400)))>> >>)}

\* the classifier outputs of a high-level file
Classifiers ==
    {Dict(Item(GenreFields[1], g) \o Item("danceability", d)
          \o Item("mood_happy", m)) :
        g \in {Absent, Classified(Str(<<"A">>), Num(80)),
               Classified(Str(<<"a">>), Num(30))},
        d \in {Absent, Classified(Str(<<"a">>), Num(90)),
               Classified(Str(<<"a">>), Num(30))},
        m \in {Absent, Classified(Str(Happy), Num(80)),
               Classified(Str(<<"n", "o", "t", "_">> \o Happy), Num(80))}}

\* what the high-level file of a recording holds: the classifiers are at
\* the root or under "highlevel"
HighFiles ==
    {Absent, Unreadable}
    \cup {Dict(c.d \o Item("metadata", md)) : c \in Classifiers, md \in Metadatas}
    \cup {Dict(Item("highlevel", c) \o Item("metadata", md)) :
            c \in Classifiers, md \in Metadatas}

---------------------------------------------------------------------------
(* The normalizer functions, each applied to one input at a time *)

InitNorm ==
    /\ input = <<>>
    /\ pc = "ready"
    /\ kb_songs = <<>>
    /\ facts = EmptyFacts
    /\ indexes = EmptyIndexes
    /\ document = JObj(<<>>)
    /\ self_songs = <<>>
    /\ self_facts = NoFacts
    /\ self_indexes = NoFacts
    /\ call = NoCall
    /\ result = NoResult

\* A normalizer function is pure
Pure ==
    /\ pc' = "returned"
    /\ UNCHANGED <<input, kb_songs, facts, indexes, document,
                   self_songs, self_facts, self_indexes>>

TempoBucket ==
    /\ pc = "ready"
    /\ \E tempo \in Tempos :
         /\ call' = [op |-> "tempo_bucket", tempo |-> tempo]
         /\ result' = Returned(tempo_bucket(tempo), 0)
    /\ Pure

ParseLowlevelJson ==
    /\ pc = "ready"
    /\ \E data \in LowLevelDocs :
         /\ call' = [op |-> "parse_lowlevel_json", data |-> data]
         /\ result' = parse_lowlevel_json(data)
    /\ Pure

ParseHighlevelJson ==
    /\ pc = "ready"
    /\ \E data \in HighLevelDocs :
         /\ call' = [op |-> "parse_highlevel_json", data |-> data]
         /\ result' = parse_highlevel_json(data)
    /\ Pure

ValueIfConfident ==
    /\ pc = "ready"
    /\ \E obj \in ConfidenceObjs, min_prob \in MinProbs :
         /\ call' = [op |-> "_value_if_confident", obj |-> obj,
                     min_prob |-> min_prob]
         /\ result' = _value_if_confident(obj, min_prob)
    /\ Pure

LoadSongFromDump ==
    /\ pc = "ready"
    /\ \E mbid \in Mbids, low \in LowFiles, high \in HighFiles :
         /\ low # Absent \/ high # Absent
         /\ call' = [op |-> "load_song_from_dump", mbid |-> mbid,
                     low |-> low, high |-> high]
         /\ result' = load_song_from_dump(mbid, low, high)
    /\ Pure

\* the caller has taken the value
NormDone ==
    /\ pc = "returned"
    /\ pc' = "ready"
    /\ call' = NoCall
    /\ result' = NoResult
    /\ UNCHANGED <<input, kb_songs, facts, indexes, document,
                   self_songs, self_facts, self_indexes>>

NextNorm ==
    \/ TempoBucket
    \/ ParseLowlevelJson
    \/ ParseHighlevelJson
    \/ ValueIfConfident
    \/ LoadSongFromDump
    \/ NormDone

SpecNorm == InitNorm /\ [][NextNorm]_vars

---------------------------------------------------------------------------
(* Claims about the normalizer *)

\* the label "low-high"
Label(low, high) == Str(IntToStr(low) \o <<"-">> \o IntToStr(high))

\* C14 as stated: tempo_bucket(None) is None, and for every other tempo,
\* zero and negative ones included, the label is "low-high" with
\* low = 10 * floor(tempo / 10) and high = low + 10, a bucket that contains
\* the tempo.  (A tempo is n / 10.)
C14_BucketContainsTempo ==
    call.op = "tempo_bucket" =>
      IF IsNone(call.tempo) THEN result.value = None
      ELSE LET n == call.tempo.n
               low == 10 * (n \div 100)
           IN  /\ result.value = Label(low, low + 10)
               /\ low * 10 <= n /\ n < (low + 10) * 10

\* n / 10 truncated toward zero
Truncated(n) ==
    CHOOSE t \in (-MaxTempo - 1)..(MaxTempo + 1) :
      IF n >= 0 THEN 10 * t <= n /\ n < 10 * t + 10
      ELSE 10 * t - 10 < n /\ n <= 10 * t

\* C14, amended: tempo_bucket(None) is None, and for every other tempo the
\* label is "low-high" with low = 10 * floor(t / 10), t the tempo truncated
\* toward zero, and high = low + 10; the bucket contains t, and it contains
\* the tempo itself whenever the tempo is not negative or is a whole number.
C14_BucketContainsTruncatedTempo ==
    call.op = "tempo_bucket" =>
      IF IsNone(call.tempo) THEN result.value = None
      ELSE LET n == call.tempo.n
               t == Truncated(n)
               low == 10 * (t \div 10)
           IN  /\ result.value = Label(low, low + 10)
               /\ low <= t /\ t < low + 10
               /\ (n >= 0 \/ n = 10 * t) => (low * 10 <= n /\ n < (low + 10) * 10)

\* The tempo -10.5 was put in the bucket "-10-0", which does not hold it.
C14_Witness ==
    /\ call.op = "tempo_bucket"
    /\ call.tempo = Num(-105)
    /\ result.value = Label(-10, 0)

\* the classifier output of the i-th genre field, None when it is missing
GenreObj(data, i) == DictGet(data.d, GenreFields[i], None)

\* every probability of the document is a number or is missing
NumericProbabilities(data) ==
    \A i \in 1..Len(GenreFields) :
      IsDict(GenreObj(data, i)) =>
        DictGet(GenreObj(data, i).d, "probability", Num(0)).tag = "num"

\* the genre fields whose value is a non-empty string and whose probability
\* is above 0.3
AcceptedFields(data) ==
    {i \in 1..Len(GenreFields) :
       /\ IsDict(GenreObj(data, i))
       /\ LET value == DictGet(GenreObj(data, i).d, "value", None)
              prob == DictGet(GenreObj(data, i).d, "probability", Num(0))
          IN  IsStr(value) /\ value.s # <<>> /\ prob.n > 30}

GenreOfField(data, i) == Str(Lower(DictGet(GenreObj(data, i).d, "value", None).s))

\* C15: parse_highlevel_json returns the lowercased values of the genre
\* fields, taken in the order rosamerica, electronic, dortmund, tzanetakis,
\* whose value is non-empty and whose probability is strictly above 0.3
\* (0.3 is rejected, 0.31 accepted), each value once, in first-seen order.
C15_GenresAboveThreshold ==
    (call.op = "parse_highlevel_json" /\ IsDict(call.data)
     /\ NumericProbabilities(call.data)) =>
      LET data == call.data
          A == AcceptedFields(data)
          r == result.value.xs
          FirstField(g) == CHOOSE i \in A :
                             /\ GenreOfField(data, i) = g
                             /\ \A j \in A : GenreOfField(data, j) = g => i <= j
      IN  /\ result.kind = "return"
          /\ Elems(r) = {GenreOfField(data, i) : i \in A}
          /\ NoRepeat(r)
          /\ \A p, q \in 1..Len(r) : p < q => FirstField(r[p]) < FirstField(r[q])

\* A document whose fields give a at 0.3, B at 0.35, A at 0.8 and a at 0.31
\* was parsed to ["b", "a"].
C15_Witness ==
    /\ call.op = "parse_highlevel_json"
    /\ call.data = Dict(<< <<GenreFields[1], Classified(Str(<<"a">>), Num(30))>>,
                           <<GenreFields[2], Classified(Str(<<"B">>), Num(35))>>,
                           <<GenreFields[3], Classified(Str(<<"A">>), Num(80))>>,
                           <<GenreFields[4], Classified(Str(<<"a">>), Num(31))>> >>)
    /\ result.value = List(<<Str(<<"b">>), Str(<<"a">>)>>)

\* C16: _value_if_confident(obj, min_prob) returns the trimmed, lowercased
\* string of obj.value exactly when obj is a mapping, its value is present
\* and its probability, 0 when missing, is at least min_prob; in every other
\* case, a probability that is no number included, it returns None, and it
\* never raises.
C16_ValueIffConfident ==
    call.op = "_value_if_confident" =>
      LET obj == call.obj
          val == IF IsDict(obj) THEN DictGet(obj.d, "value", None) ELSE None
          prob == IF IsDict(obj) THEN DictGet(obj.d, "probability", Num(0))
                  ELSE None
          confident == /\ IsDict(obj)
                       /\ ~IsNone(val)
                       /\ prob.tag = "num"
                       /\ prob.n >= call.min_prob.n
      IN  /\ result.kind = "return"
          /\ confident => result.value = Str(Strip(Lower(val.s)))
          /\ ~confident => result.value = None

\* The value " Ab " at probability 0.5 passed the threshold 0.5 as "ab".
C16_Witness ==
    /\ call.op = "_value_if_confident"
    /\ call.obj = Classified(Str(<<" ", "A", "b", " ">>), Num(50))
    /\ call.min_prob = Num(50)
    /\ result.value = Str(<<"a", "b">>)

\* the call is one of the normalizer functions
NormalizerCall ==
    call.op \in {"parse_lowlevel_json", "parse_highlevel_json",
                 "_value_if_confident"}

\* C17 as stated: whatever is missing, null, of the wrong type (a bpm, a
\* length or a probability that is no number) or no mapping where a mapping
\* is expected, a normalizer function returns and raises nothing.
C17_NormalizerNeverRaises ==
    NormalizerCall => result.kind = "return"

\* the value found in the document of the call by following keys
Leaf(keys) == _get_nested(call.data, keys)

\* C18 as stated: the loudness parse_lowlevel_json returns is
\* lowlevel.average_loudness whenever that field holds a number, 0 included,
\* the replay gain only when average_loudness is absent, and null only when
\* both are absent.
C18_AverageLoudnessPreferred ==
    (call.op = "parse_lowlevel_json" /\ result.kind = "return") =>
      LET al == Leaf(<<"lowlevel", "average_loudness">>)
          rg == Leaf(<<"metadata", "audio_properties", "replay_gain">>)
      IN  /\ ~IsNone(al) => result.value.loudness = al
          /\ (IsNone(al) /\ ~IsNone(rg)) => result.value.loudness = rg
          /\ IsNone(result.value.loudness) <=> (IsNone(al) /\ IsNone(rg))

\* C19 as stated: parse_lowlevel_json returns a key exactly when a key
\* letter is present, the key being "<letter> <scale>" with the scale
\* lowercased and "major" when there is none; the mode is the lowercase
\* scale name, and it is null when no key letter is present.
C19_KeyAndMode ==
    (call.op = "parse_lowlevel_json" /\ result.kind = "return") =>
      LET kk == Leaf(<<"tonal", "key_key">>)
          ks == Leaf(<<"tonal", "key_scale">>)
          present == IsStr(kk) /\ kk.s # <<>>
          scale == IF IsStr(ks) THEN Lower(ks.s) ELSE <<"m", "a", "j", "o", "r">>
      IN  /\ ~IsNone(result.value.key) <=> present
          /\ present => result.value.key = Str(kk.s \o <<" ">> \o scale)
          /\ (present /\ IsStr(ks)) => result.value.mode = Str(Lower(ks.s))
          /\ ~present => IsNone(result.value.mode)

---------------------------------------------------------------------------
(* Records without an identifier *)

\* the record has an mbid that is neither null nor empty
Identified(song) ==
    song.mbid # Absent /\ song.mbid # None /\ song.mbid # Str(<<>>)

\* the loop body applied to the records rs, one after the other
RECURSIVE FoldAll(_, _)
FoldAll(st, rs) ==
    IF rs = <<>> THEN st ELSE FoldAll(FoldSong(st, Head(rs)), Tail(rs))

\* C20: a record whose mbid is missing, null or empty is skipped: it raises
\* nothing and leaves songs, facts and indexes as they were, and the records
\* after it are processed, so that the store is at every step the one built
\* from the identified records alone.
C20_UnidentifiedRecordsSkipped ==
    pc \in {"fold", "raised"} =>
      LET st == FoldAll(BuildState(<<>>, EmptyFacts, EmptyIndexes, "none"),
                        SelectSeq(input, Identified))
      IN  /\ kb_songs = st.songs
          /\ facts = st.facts
          /\ indexes = st.indexes
          /\ pc = "raised" => Identified(input[Len(input)])

\* After a record with an empty mbid, null audio features and null genres,
\* a record with an identifier was registered.
C20_Witness ==
    /\ pc = "fold"
    /\ Len(input) = 2
    /\ input[1].mbid = Str(<<>>)
    /\ IsNone(input[1].audio_features)
    /\ Len(kb_songs) = 1
    /\ \E ix \in IndexNames : indexes[ix] # <<>>

---------------------------------------------------------------------------
(* The API clients: one response body *)

\* `if x is None: x = y`, acousticbrainz_client.py lines 72-78
IfNone(x, y) == IF IsNone(x) THEN y ELSE x

\* truthiness of a value of a response, a dict being truthy when it has a key
Filled(v) == IF IsDict(v) THEN v.d # <<>> ELSE Truthy(v)

\* _get_recording_data, lines 28-43; the keys of a response are identifiers
_get_recording_data(response, mbid) ==
    LET first == DictGet(response.d, mbid.s, None)
        mbid_data == IF IsNone(first)
                     THEN DictGet(response.d, Lower(mbid.s), None) ELSE first
    IN  IF IsNone(mbid_data) THEN None
        ELSE IF IsDict(mbid_data) /\ HasKey(mbid_data.d, "0") /\ Len(mbid_data.d) = 1
        THEN DictGet(mbid_data.d, "0", None)
        ELSE IF IsDict(mbid_data) THEN mbid_data ELSE None

\* what `except (ValueError, KeyError): return None` makes of a failing
\* step, lines 106-108; any other exception leaves the function
Caught(exc) == exc \in {"ValueError", "KeyError"}

\* the body of the try of get_low_level_features from `data = resp.json()`
\* on, lines 60-96
LowLevelOfResponse(mbid, data) ==
    IF ~Filled(data) THEN Returned(None, 0)
    ELSE LET recording == _get_recording_data(data, mbid) IN
    IF IsNone(recording) THEN Returned(None, 0)
    ELSE
    LET bpm == _get_nested(recording, <<"rhythm", "bpm">>)
        key_key == _get_nested(recording, <<"tonal", "key_key">>)
        key_scale == _get_nested(recording, <<"tonal", "key_scale">>)
        loudness ==
            IfNone(_get_nested(recording, <<"lowlevel", "average_loudness">>),
                   _get_nested(recording, <<"metadata", "audio_properties", "replay_gain">>))
        duration == _get_nested(recording, <<"metadata", "audio_properties", "length">>)
        time_sig == IfNone(_get_nested(recording, <<"rhythm", "beats_count">>),
                           _get_nested(recording, <<"rhythm", "time_signature">>))
        key_str == KeyOf(key_key, key_scale)
        tempo == FloatUnlessNone(bpm)
        mode == ModeOf(key_scale)
        ts == IntUnlessNone(time_sig)
        ld == FloatUnlessNone(loudness)
        dur == FloatUnlessNone(duration)
        steps == <<key_str, tempo, mode, ts, ld, dur>>
        failed == {i \in 1..Len(steps) : ~steps[i].ok}
    IN  IF failed # {}
        THEN LET exc == steps[CHOOSE i \in failed : \A j \in failed : i <= j].exc
             IN  IF Caught(exc) THEN Returned(None, 0) ELSE Raise(exc, 0)
        ELSE Returned([mbid |-> mbid, tempo |-> tempo.v, key |-> key_str.v,
                       mode |-> mode.v, time_signature |-> ts.v,
                       loudness |-> ld.v, duration |-> dur.v,
                       tonal |-> _get_nested(recording, <<"tonal">>),
                       rhythm |-> _get_nested(recording, <<"rhythm">>),
                       lowlevel |-> _get_nested(recording, <<"lowlevel">>)], 0)

\* the body of the try of get_high_level_features from `data = resp.json()`
\* on, lines 127-155; the genre loop is that of parse_highlevel_json
HighLevelOfResponse(mbid, data) ==
    IF ~Filled(data) THEN Returned(None, 0)
    ELSE LET recording == _get_recording_data(data, mbid) IN
    IF IsNone(recording) THEN Returned(None, 0)
    ELSE IF ~IsDict(recording) THEN Raise("AttributeError", 0)
    ELSE LET genres == GenreScan(recording, 1, <<>>) IN
         IF genres.kind = "raise"
         THEN IF Caught(genres.exc) THEN Returned(None, 0) ELSE Raise(genres.exc, 0)
         ELSE Returned([mbid |-> mbid, genres |-> genres.value,
                        high_level |-> recording], 0)

\* s.startswith(prefix)
StartsWith(s, prefix) ==
    Len(s) >= Len(prefix) /\ SubSeq(s, 1, Len(prefix)) = prefix

\* _normalize_artist, musicbrainz_client.py lines 26-33; name is a str or
\* None
_normalize_artist(name) ==
    IF ~Truthy(name) THEN <<>>
    ELSE LET s == Lower(Strip(name.s)) IN
         IF StartsWith(s, <<"t", "h", "e", " ">>)
         THEN Strip(SubSeq(s, 5, Len(s))) ELSE s

\* nc if isinstance(nc, list) else [nc], then nc_list[0] if nc_list else {}
FirstCredit(nc) ==
    IF nc.tag = "list" THEN (IF nc.xs # <<>> THEN nc.xs[1] ELSE Dict(<<>>))
    ELSE nc

\* _get_main_artist_from_recording, lines 36-55; str(first) of a str is
\* that str
_get_main_artist_from_recording(recording) ==
    LET credits == DictGet(recording.d, "artist-credit", None) IN
    IF ~Filled(credits) THEN Str(<<>>)
    ELSE LET first == IF IsDict(credits) /\ HasKey(credits.d, "name-credit")
                      THEN FirstCredit(DictGet(credits.d, "name-credit", None))
                      ELSE FirstCredit(credits)
         IN  IF IsDict(first)
             THEN LET artist == DictGet(first.d, "artist", Dict(<<>>))
                  IN  IF IsDict(artist) THEN DictGet(artist.d, "name", Str(<<>>))
                      ELSE Str(<<>>)
             ELSE first

\* _artist_matches, lines 58-64
_artist_matches(requested, actual) ==
    LET r == _normalize_artist(requested)
        a == _normalize_artist(actual)
    IN  IF r = <<>> \/ a = <<>> THEN FALSE
        ELSE r = a \/ In(r, a) \/ In(a, r)

\* the loop of lines 82-85 from the i-th recording on
RECURSIVE MatchScan(_, _, _)
MatchScan(recordings, i, artist) ==
    IF i > Len(recordings) THEN DictGet(recordings[1].d, "id", None)
    ELSE IF _artist_matches(artist, _get_main_artist_from_recording(recordings[i]))
    THEN DictGet(recordings[i].d, "id", None)
    ELSE MatchScan(recordings, i + 1, artist)

\* the body of the try of search_recording from the result of the search
\* on, lines 79-86
RecordingOfResult(artist, res) ==
    LET recordings == DictGet(res.d, "recording-list", List(<<>>)) IN
    IF ~Truthy(recordings) THEN Returned(None, 0)
    ELSE Returned(MatchScan(recordings.xs, 1, artist), 0)

---------------------------------------------------------------------------
(* The API clients: requests and retries *)

\* acousticbrainz_client.py and musicbrainz_client.py; seconds in tenths
MAX_RETRIES == 3
RETRY_BACKOFF == 20
REQUEST_DELAY == 5
MB_REQUEST_DELAY == 10

\* time.sleep(REQUEST_DELAY) of the module the function is in
DelayOf(op) == IF op = "search_recording" THEN MB_REQUEST_DELAY ELSE REQUEST_DELAY

RECURSIVE Pow2(_)
Pow2(n) == IF n = 0 THEN 1 ELSE 2 * Pow2(n - 1)

\* wait = RETRY_BACKOFF * (2**attempt)
Backoff(attempt) == RETRY_BACKOFF * Pow2(attempt)

\* an exception of a request: its class and the lowered text of str(e)
Failure(class, text) == [tag |-> "error", class |-> class, text |-> text]

Response(body) == [tag |-> "response", body |-> body]

\* "connection reset" in err_str or "errno 54" in err_str
IsReset(e) == e.text \in {"connection reset", "errno 54"}

\* the except clause with the retry: requests.RequestException, lines
\* 98-105 and 159-166, musicbrainzngs.NetworkError, lines 90-97
RetryClause(op, e) ==
    IF op = "search_recording" THEN e.class = "NetworkError"
    ELSE e.class \in {"ConnectionError", "Timeout", "HTTPError"}

\* A retry test without the bound on the attempt
RetriesWithoutBound(op, e, attempt) == RetryClause(op, e) /\ IsReset(e)

\* the test of lines 100, 161 and 92
ShouldRetry(op, e, attempt) ==
    RetryClause(op, e) /\ IsReset(e) /\ attempt < MAX_RETRIES - 1

\* identifiers asked for; the service answers under the lowered identifier
ApiMbids == {Str(<<"1">>), Str(<<"B">>)}

\* recordings the low-level endpoint answers with
ApiLowDocs ==
    {LowLevelDoc(bpm, bc, ts, Str(<<"A">>), None, al, rg, Num(2400)) :
        bpm \in {Num(1205), Str(<<"a">>)}, bc \in BeatCounts,
        ts \in TimeSignatures, al \in AverageLoudness, rg \in ReplayGains}
    \cup {Dict(<<>>), Dict(<< <<"tonal", Dict(Item("key_key", Str(<<"A">>))
                                           \o Item("key_scale", Num(7)))>> >>)}

\* recordings the high-level endpoint answers with
ApiHighDocs ==
    {Dict(Item(GenreFields[1], g1) \o Item(GenreFields[2], g2)) :
        g1 \in {Absent, Classified(Str(<<"A">>), Num(80)),
                Classified(Str(<<"a">>), Num(30))},
        g2 \in {Absent, Classified(Str(<<"B">>), Num(35)),
                Classified(Str(<<"B">>), Str(<<"a">>)),
                Classified(Str(<<"B">>), List(<<Num(1)>>))}}

\* response bodies for an identifier: empty, the recording under the
\* identifier as asked or lowered, under segment "0", or under another key
BodiesFor(mbid, docs) ==
    {Dict(<<>>)}
    \cup {Dict(<< <<mbid.s, doc>> >>) : doc \in docs}
    \cup {Dict(<< <<Lower(mbid.s), Dict(<< <<"0", doc>> >>)>> >>) : doc \in docs}
    \cup {Dict(<< <<(<<"2">>), doc>> >>) : doc \in docs}

Credit(name) == Dict(<< <<"artist", Dict(Item("name", name))>> >>)

\* recordings of a search result
FoundRecordings ==
    {Dict(Item("id", Str(<<"1">>))
          \o Item("artist-credit", List(<<Credit(Str(<<"a">>))>>))),
     Dict(Item("id", Str(<<"2">>))
          \o Item("artist-credit",
                  Dict(<< <<"name-credit", Credit(Str(<<"T", "h", "e", " ", "B">>))>> >>))),
     Dict(Item("id", Str(<<"3">>))
          \o Item("artist-credit", List(<<Str(<<"b", "b">>)>>))),
     Dict(<< <<"artist-credit", List(<<Credit(None)>>)>> >>)}

SearchResults ==
    {Dict(<<>>)}
    \cup {Dict(<< <<"recording-list", List(rs)>> >>) :
            rs \in UNION {[1..n -> FoundRecordings] : n \in 0..2}}

SearchArtists == {Str(<<"b">>), Str(<<"t", "h", "e", " ", "a">>), Str(<<>>)}

\* what one request can end in
Outcomes(c) ==
    IF c.op = "search_recording"
    THEN {Response(r) : r \in SearchResults}
         \cup {Failure("NetworkError", t) :
                 t \in {"connection reset", "errno 54", "timed out"}}
         \cup {Failure("ResponseError", "connection reset")}
    ELSE {Response(b) :
            b \in BodiesFor(c.mbid, IF c.op = "get_low_level_features"
                                    THEN ApiLowDocs ELSE ApiHighDocs)}
         \cup {Failure("ConnectionError", t) : t \in {"connection reset", "errno 54"}}
         \cup {Failure("Timeout", "timed out"), Failure("HTTPError", "404"),
               Failure("JSONDecodeError", "expecting value")}

\* what the function returns for a response
Answer(c, body) ==
    CASE c.op = "get_low_level_features" -> LowLevelOfResponse(c.mbid, body)
      [] c.op = "get_high_level_features" -> HighLevelOfResponse(c.mbid, body)
      [] c.op = "search_recording" -> RecordingOfResult(c.artist, body)

InitRetry ==
    /\ input = <<>>
    /\ pc = "idle"
    /\ kb_songs = <<>>
    /\ facts = EmptyFacts
    /\ indexes = EmptyIndexes
    /\ document = JObj(<<>>)
    /\ self_songs = <<>>
    /\ self_facts = NoFacts
    /\ self_indexes = NoFacts
    /\ call = NoCall
    /\ result = NoResult

\* a client function touches no store
Offline ==
    UNCHANGED <<input, kb_songs, facts, indexes, document,
                self_songs, self_facts, self_indexes>>

\* a client function is called: attempt 0 is about to be made
StartCall ==
    /\ pc = "idle"
    /\ \/ \E op \in {"get_low_level_features", "get_high_level_features"},
            mbid \in ApiMbids :
            call' = [op |-> op, mbid |-> mbid, attempt |-> 0,
                     tried |-> <<>>, slept |-> <<>>]
       \/ \E artist \in SearchArtists :
            call' = [op |-> "search_recording", artist |-> artist,
                     track |-> Str(<<"a">>), attempt |-> 0,
                     tried |-> <<>>, slept |-> <<>>]
    /\ pc' = "request"
    /\ result' = NoResult
    /\ Offline

\* one iteration of `for attempt in range(MAX_RETRIES)`: the delay, the
\* request and what is made of its outcome; after the last iteration the
\* function returns None
Attempt ==
    /\ pc = "request"
    /\ \E outcome \in Outcomes(call) :
         LET delayed == [call EXCEPT !.slept = Append(@, DelayOf(call.op)),
                                     !.tried = Append(@, outcome)]
         IN  IF outcome.tag = "response"
             THEN /\ call' = delayed
                  /\ result' = Answer(call, outcome.body)
                  /\ pc' = "returned"
             ELSE IF ShouldRetry(call.op, outcome, call.attempt)
             THEN /\ call' = [delayed EXCEPT
                                !.slept = Append(@, Backoff(call.attempt)),
                                !.attempt = @ + 1]
                  /\ IF call.attempt + 1 < MAX_RETRIES
                     THEN pc' = "request" /\ result' = result
                     ELSE pc' = "returned" /\ result' = Returned(None, 0)
             ELSE /\ call' = delayed
                  /\ result' = Returned(None, 0)
                  /\ pc' = "returned"
    /\ Offline

\* the caller has taken the value
RetryDone ==
    /\ pc = "returned"
    /\ pc' = "idle"
    /\ call' = NoCall
    /\ result' = NoResult
    /\ Offline

NextRetry ==
    \/ StartCall
    \/ Attempt
    \/ RetryDone

\* a function that was called runs on: its loop makes its next attempt
SpecRetry == InitRetry /\ [][NextRetry]_vars /\ WF_vars(Attempt)

---------------------------------------------------------------------------
(* Claims about recurring identifiers and the indexes *)

\* the field of a record, the empty string when the record lacks it
FieldOrEmpty(r, field) == IF r[field] = Absent THEN Str(<<>>) ELSE r[field]

\* C21: whatever records the fold has taken, an identifier that occurs in
\* them has exactly one songs entry, and its artist, track and album are
\* those of the last record carrying it, the empty string standing for a
\* field that record lacks.
C21_LastWriteWins ==
    /\ NoRepeat(DictKeys(kb_songs))
    /\ \A sid \in Mbids :
         LET rs == RecordsOf(sid) IN
         IF rs = <<>> THEN ~HasKey(kb_songs, sid)
         ELSE LET last == rs[Len(rs)]
                  entry == DictGet(kb_songs, sid, None)
              IN  /\ HasKey(kb_songs, sid)
                  /\ entry.mbid = sid
                  /\ entry.artist = FieldOrEmpty(last, "artist")
                  /\ entry.track = FieldOrEmpty(last, "track")
                  /\ entry.album = FieldOrEmpty(last, "album")

\* One identifier came twice, first with a title and an artist, then with
\* neither: its single entry has the empty title.
C21_Witness ==
    /\ Len(input) = 2
    /\ input[1].mbid = input[2].mbid
    /\ input[1].track = Str(<<"A", "b">>)
    /\ input[2].track = Absent
    /\ Len(kb_songs) = 1
    /\ kb_songs[1][2].track = Str(<<>>)

\* C22 as stated: a record that has an identifier and whose other fields
\* are missing or null raises nothing and is registered, and the fold goes
\* on.  (Every field of the records fed here is missing, null or of its
\* declared type.)
C22_NullSubfieldsTolerated ==
    (input # <<>> /\ Identified(input[Len(input)])) =>
      /\ pc # "raised"
      /\ HasKey(kb_songs, input[Len(input)].mbid)

\* the label as the index keys it: lowercased and trimmed
Keyed(g) == Str(Lower(Strip(g.s)))

\* the list fact of sid, empty when it has none
ListFact(fact, sid) == DictGet(facts[fact], sid, List(<<>>)).xs

\* C23: in the returned store a song id is in by_genre[k] exactly when k is
\* not empty and the song's has_genre list holds a string that is k once
\* lowercased and trimmed; a string of which nothing is left stays in the
\* fact list and makes no index key.  Likewise for has_mood and by_mood.
C23_LabelIndexIffFact ==
    Built =>
      \A p \in {<<"has_genre", "by_genre">>, <<"has_mood", "by_mood">>} :
        LET x == indexes[p[2]] IN
        /\ \A i \in 1..Len(x) :
             /\ x[i][1].s # <<>>
             /\ \A sid \in Elems(x[i][2]) :
                  \E g \in Elems(ListFact(p[1], sid)) : Keyed(g) = x[i][1]
        /\ \A sid \in Mbids : \A g \in Elems(ListFact(p[1], sid)) :
             Keyed(g).s # <<>> => sid \in Elems(DictGet(x, Keyed(g), <<>>))

\* A returned store whose has_genre list keeps a blank string beside "b",
\* while by_genre has the key "b" alone.
C23_Witness ==
    /\ pc = "built"
    /\ \E sid \in Mbids :
         ListFact("has_genre", sid) = <<Str(<<" ">>), Str(<<"b">>)>>
    /\ DictKeys(indexes["by_genre"]) = <<Str(<<"b">>)>>

\* xs is ys or the beginning of ys
IsPrefix(xs, ys) == Len(xs) <= Len(ys) /\ SubSeq(ys, 1, Len(xs)) = xs

\* every index keeps its keys in place and every index list is continued
IndexesGrow ==
    \A ix \in IndexNames :
      /\ Len(indexes[ix]) <= Len(indexes'[ix])
      /\ \A i \in 1..Len(indexes[ix]) :
           /\ indexes'[ix][i][1] = indexes[ix][i][1]
           /\ IsPrefix(indexes[ix][i][2], indexes'[ix][i][2])

\* the genre entries fed for sid that are keyed k, with repetition
FedGenres(sid, k) ==
    LET app == AppendedLabels(RecordsOf(sid), "genres")
    IN  {j \in 1..Len(app) : Keyed(app[j]) = k}

\* by_genre holds sid under k as many times as genre entries keyed k were fed
GenreIndexCounts ==
    (pc = "fold" \/ Built) =>
      \A sid \in Mbids :
        \A k \in (Elems(DictKeys(indexes["by_genre"]))
                  \cup {Keyed(g) : g \in Elems(AppendedLabels(RecordsOf(sid), "genres"))})
                 \ {Str(<<>>)} :
          Count(DictGet(indexes["by_genre"], k, <<>>), sid)
            = Cardinality(FedGenres(sid, k))

\* C24: index lists only grow at their end and are never deduplicated: the
\* occurrences of a song id in by_genre[k] are as many as the genre entries,
\* counted with repetition over all records of that id, that are k once
\* lowercased and trimmed.
C24_IndexListsAppendOnly ==
    [][IndexesGrow]_vars /\ []GenreIndexCounts

\* A returned store that lists a song twice under the genre "a" while its
\* has_genre list holds "a" once.
C24_Witness ==
    /\ pc = "built"
    /\ \E sid \in Mbids :
         /\ Count(DictGet(indexes["by_genre"], Str(<<"a">>), <<>>), sid) = 2
         /\ ListFact("has_genre", sid) = <<Str(<<"a">>)>>

\* C25 as stated: in a built and loaded store, a song whose has_danceable,
\* has_voice_instrumental or has_timbre fact is the label v, in whatever
\* letter case, is among the songs the matching query returns for v.
C25_ScalarFactFoundByQuery ==
    pc = "loaded" =>
      \A sid \in Mbids :
        /\ LET v == get_fact("has_danceable", sid)
           IN  ~IsNone(v) => sid \in Elems(songs_by_danceable(v).value.xs)
        /\ LET v == get_fact("has_voice_instrumental", sid)
           IN  ~IsNone(v) => sid \in Elems(songs_by_voice_instrumental(v).value.xs)
        /\ LET v == get_fact("has_timbre", sid)
           IN  ~IsNone(v) => sid \in Elems(songs_by_timbre(v).value.xs)

\* C26 as stated: in the returned store a song id is in by_tempo_range[b]
\* exactly when the song has a has_tempo fact whose bucket is b, also when
\* its identifier recurred with different tempos.
C26_TempoIndexIffFact ==
    Built =>
      \A sid \in Mbids :
        \A b \in Elems(DictKeys(indexes["by_tempo_range"])) :
          sid \in Elems(DictGet(indexes["by_tempo_range"], b, <<>>))
            <=> /\ HasKey(facts["has_tempo"], sid)
                /\ tempo_bucket(DictGet(facts["has_tempo"], sid, None)) = b


---------------------------------------------------------------------------
(* Claims about loading one recording of the dump *)

\* a file that is there and decodes
Parses(file) == file # Absent /\ file # Unreadable

\* a high-level document from which a label or a mood is taken
BearsLabel(high) ==
    /\ IsDict(high)
    /\ LET extra == parse_highlevel_extra(high, DictGet(high.d, "highlevel", high))
       IN  \/ ~IsNone(extra.danceable)
           \/ ~IsNone(extra.voice_instrumental)
           \/ ~IsNone(extra.timbre)
           \/ extra.moods.xs # <<>>

\* C27: a recording with only a high-level file, which decodes and from
\* which a label or a mood is taken, is not dropped: load_song_from_dump
\* gives a record for it and not None.
C27_PartialRecordKept ==
    (/\ pc = "returned"
     /\ call.op = "load_song_from_dump"
     /\ result.kind = "return"
     /\ ~Parses(call.low)
     /\ Parses(call.high)
     /\ BearsLabel(call.high))
    => result.value # None

---------------------------------------------------------------------------
(* Claims about songs registered without a title *)

\* positions of the songs whose track is empty after trimming, or missing
Untitled == {i \in 1..Len(self_songs) : SongTrack(i) = <<>>}

\* no artist is given: None, or a string that is empty after trimming
NoArtist(artist_name) ==
    IsNone(artist_name) \/ (IsStr(artist_name) /\ Strip(artist_name.s) = <<>>)

\* C28: in a store of string names, a song with an empty title matches
\* every track partially: get_mbid_by_song with a valid track and no artist
\* never returns None when such a song is registered, find_songs_by_name
\* with no artist always includes it, and find_songs_by_name with a track
\* that is empty after trimming and no artist returns every registered id
\* in registration order.
C28_UntitledMatchesAll ==
    (/\ pc = "answered" /\ StringNames
     /\ call.op \in {"get_mbid_by_song", "find_songs_by_name"}
     /\ NoArtist(call.artist_name)) =>
      /\ (call.op = "get_mbid_by_song" /\ ValidCall /\ Untitled # {}) =>
           result.kind = "return" /\ result.value # None
      /\ (call.op = "find_songs_by_name" /\ IsStr(call.track_name)) =>
           /\ result.kind = "return"
           /\ \A i \in Untitled : self_songs[i][1] \in Elems(result.value)
           /\ Fold(call.track_name.s) = <<>> =>
                result.value = [i \in 1..Len(self_songs) |-> self_songs[i][1]]

\* A valid track that equals no stored track and is given without artist
\* found the untitled second song, the titled first song not matching.
C28_Witness ==
    /\ pc = "answered" /\ StringNames
    /\ call.op = "get_mbid_by_song" /\ ValidCall /\ IsNone(call.artist_name)
    /\ Len(self_songs) = 2 /\ Untitled = {2}
    /\ ~Sub(Fold(call.track_name.s), SongTrack(1))
    /\ result.kind = "return" /\ result.value = self_songs[2][1]

---------------------------------------------------------------------------
(* Claims about the API clients *)

\* the recording a low-level response holds for the identifier asked for
AnsweredRecording == _get_recording_data(call.tried[Len(call.tried)].body, call.mbid)

SharedFields == {"tempo", "key", "mode", "time_signature", "loudness", "duration"}

\* C29: for one low-level document, given to the dump parser and returned
\* by the service as the response body, parse_lowlevel_json and
\* get_low_level_features give the same tempo, key, mode, time_signature,
\* loudness and duration, also when average_loudness or beats_count is 0.
C29_DumpAndApiAgree ==
    (/\ pc = "returned"
     /\ call.op = "get_low_level_features"
     /\ call.tried[Len(call.tried)].tag = "response"
     /\ result.kind = "return"
     /\ result.value # None
     /\ parse_lowlevel_json(AnsweredRecording).kind = "return")
    => \A f \in SharedFields :
         result.value[f] = parse_lowlevel_json(AnsweredRecording).value[f]

\* the sleeps of a call that made its n first attempts, a backoff following
\* each of the first b of them
RECURSIVE Sleeps(_, _, _)
Sleeps(op, n, b) ==
    IF n = 0 THEN <<>>
    ELSE Sleeps(op, n - 1, b) \o <<DelayOf(op)>>
         \o (IF n <= b THEN <<Backoff(n - 1)>> ELSE <<>>)

\* the state of a call agrees with the retry rule
RetryRule ==
    pc \in {"request", "returned"} =>
      LET n == Len(call.tried) IN
      /\ n <= MAX_RETRIES
      /\ pc = "request" => n < MAX_RETRIES /\ call.attempt = n
      /\ pc = "returned" => n >= 1
      /\ \A i \in 1..n :
           (i < n \/ pc = "request") =>
             /\ call.tried[i].tag = "error"
             /\ IsReset(call.tried[i])
             /\ i < MAX_RETRIES
      /\ call.slept = Sleeps(call.op, n, IF pc = "request" THEN n ELSE n - 1)
      /\ (pc = "returned" /\ call.tried[n].tag = "error") =>
           result = Returned(None, 0)

\* C30: get_low_level_features, get_high_level_features and
\* search_recording make at most MAX_RETRIES = 3 attempts; a further
\* attempt follows only a connection-reset error of an attempt that is not
\* the last, after a wait of RETRY_BACKOFF * 2^attempt seconds; any other
\* failure, and the failure of the last attempt, returns None; a call that
\* was started returns.
C30_RetriesBounded ==
    /\ []RetryRule
    /\ (pc = "request") ~> (pc = "returned")

\* A call whose three attempts all ended in a connection reset returned
\* None after waiting 2 and 4 seconds.
C30_Witness ==
    /\ pc = "returned"
    /\ Len(call.tried) = MAX_RETRIES
    /\ \A i \in 1..MAX_RETRIES : call.tried[i].tag = "error" /\ IsReset(call.tried[i])
    /\ call.slept = <<DelayOf(call.op), 20, DelayOf(call.op), 40, DelayOf(call.op)>>
    /\ result = Returned(None, 0)

====
